---- MODULE Spec2Model ----
(***************************************************************************)
(* A model of the ICC profile decoder of skcms (src/src/ICCProfile.c).     *)
(*                                                                         *)
(* A buffer is a sequence of bytes; the byte at C offset p is buf[p + 1].  *)
(* A uint32_t is a pair <<hi, lo>> of 16-bit halves and a uint64_t four    *)
(* 16-bit limbs <<l3, l2, l1, l0>> (most significant first), so that every *)
(* 32- and 64-bit value of the program is represented exactly.  A float is *)
(* an IEEE-754 binary32 value [s, m, e] standing for (-1)^s * m * 2^e with *)
(* m = 0 (zero) or 2^23 <= m < 2^24.                                       *)
(***************************************************************************)
EXTENDS Integers, Sequences, FiniteSets, TLC

(***************************************************************************)
(* Fixed-width unsigned arithmetic                                         *)
(***************************************************************************)

\* One 16-bit limb holds values below Limb.
Limb == 65536

U32(hi, lo) == <<hi, lo>>

U32FromInt(n) == <<n \div Limb, n % Limb>>

U32Lt(x, y) == x[1] < y[1] \/ (x[1] = y[1] /\ x[2] < y[2])

\* The value of a uint32_t that is known to be below 2^31.
U32ToInt(x) == x[1] * Limb + x[2]

\* x > n for a uint32_t x and a natural n < 2^31.
U32GtInt(x, n) == x[1] >= 32768 \/ U32ToInt(x) > n

\* x >> 24
U32Shr24(x) == x[1] \div 256

\* (uint64_t)x for a uint32_t x
U64FromU32(x) == <<0, 0, x[1], x[2]>>

\* (uint64_t)n for a natural n < 2^31
U64FromInt(n) == <<0, 0, n \div Limb, n % Limb>>

U64Add(x, y) ==
    LET s0 == x[4] + y[4]
        s1 == x[3] + y[3] + s0 \div Limb
        s2 == x[2] + y[2] + s1 \div Limb
        s3 == x[1] + y[1] + s2 \div Limb
    IN  <<s3 % Limb, s2 % Limb, s1 % Limb, s0 % Limb>>

\* x * k (mod 2^64) for a small factor k (k < 2^15)
U64MulSmall(x, k) ==
    LET p0 == x[4] * k
        p1 == x[3] * k + p0 \div Limb
        p2 == x[2] * k + p1 \div Limb
        p3 == x[1] * k + p2 \div Limb
    IN  <<p3 % Limb, p2 % Limb, p1 % Limb, p0 % Limb>>

U64Lt(x, y) ==
    \E i \in 1..4 : x[i] < y[i] /\ \A j \in 1..(i - 1) : x[j] = y[j]

\* The value of a uint64_t that is known to be below 2^31.
U64ToInt(x) == x[3] * Limb + x[4]

\* SAFE_SIZEOF(x) is ((uint64_t)sizeof(x)): a 64-bit operand on every target.
SAFE_SIZEOF(n) == U64FromInt(n)

(***************************************************************************)
(* IEEE-754 binary32 arithmetic (round to nearest, ties to even)           *)
(***************************************************************************)

\* F applied to v: the body F names a value that is computed once.
Let(v, F(_)) == F(v)

Pow2(n) == 2 ^ n

\* The number of bits of a natural n: 0 for 0, else floor(log2 n) + 1.
RECURSIVE BitLen(_)
BitLen(n) == IF n = 0 THEN 0 ELSE 1 + BitLen(n \div 2)

FZero(s) == [s |-> s, m |-> 0, e |-> 0]

F_1 == [s |-> 0, m |-> 8388608, e |-> -23]

\* The float nearest to (-1)^s * mag * 2^e, for a natural mag < 2^31.
FRound(s, mag, e) ==
    IF mag = 0 THEN FZero(s)
    ELSE Let(BitLen(mag) - 24,
         LAMBDA k :
             IF k <= 0
             THEN [s |-> s, m |-> mag * Pow2(-k), e |-> e + k]
             ELSE LET q    == mag \div Pow2(k)
                      r    == mag % Pow2(k)
                      half == Pow2(k - 1)
                      up   == r > half \/ (r = half /\ q % 2 = 1)
                      q1   == IF up THEN q + 1 ELSE q
                  IN  IF q1 = 16777216
                      THEN [s |-> s, m |-> 8388608, e |-> e + k + 1]
                      ELSE [s |-> s, m |-> q1, e |-> e + k])

\* (float)i for an int32_t i
I32ToFloat(i) ==
    IF i = (-2147483647) - 1 THEN [s |-> 1, m |-> 8388608, e |-> 8]
    ELSE FRound(IF i < 0 THEN 1 ELSE 0, IF i < 0 THEN -i ELSE i, 0)

\* x * 2^k, exact (k is the exponent of a power-of-two constant)
FMulPow2(x, k) == IF x.m = 0 THEN x ELSE [x EXCEPT !.e = x.e + k]

FNeg(x) == [x EXCEPT !.s = 1 - x.s]

FAbs(x) == [x EXCEPT !.s = 0]

FIsZero(x) == x.m = 0

\* |x| < |y|
FMagLt(x, y) ==
    IF y.m = 0 THEN FALSE
    ELSE IF x.m = 0 THEN TRUE
    ELSE x.e < y.e \/ (x.e = y.e /\ x.m < y.m)

\* x > y
FGt(x, y) ==
    IF x.m = 0 /\ y.m = 0 THEN FALSE
    ELSE IF x.s = 0 /\ y.s = 1 THEN TRUE
    ELSE IF x.s = 1 /\ y.s = 0 THEN FALSE
    ELSE IF x.s = 0 THEN FMagLt(y, x)
    ELSE FMagLt(x, y)

\* x + y
FAdd(x, y) ==
    IF x.m = 0 /\ y.m = 0 THEN FZero(IF x.s = 1 /\ y.s = 1 THEN 1 ELSE 0)
    ELSE IF y.m = 0 THEN x
    ELSE IF x.m = 0 THEN y
    ELSE Let(IF FMagLt(x, y) THEN <<y, x>> ELSE <<x, y>>,
         LAMBDA bs :
             LET big   == bs[1]
                 small == bs[2]
                 d     == big.e - small.e
                 B     == big.m * 8
                 v     == small.m * 8
                 S     == IF d >= 27 THEN 1
                          ELSE (v \div Pow2(d))
                                 + (IF v % Pow2(d) # 0 /\ (v \div Pow2(d)) % 2 = 0
                                    THEN 1 ELSE 0)
                 R     == IF big.s = small.s THEN B + S ELSE B - S
             IN  IF R = 0 THEN FZero(0) ELSE FRound(big.s, R, big.e - 3))

\* x - y
FSub(x, y) == FAdd(x, FNeg(y))

\* The quotient bits of num / den below the leading one: n more bits of the
\* long division with remainder r (r < den), returned with the last remainder.
RECURSIVE DivBits(_, _, _, _)
DivBits(r, den, n, q) ==
    IF n = 0 THEN <<q, r>>
    ELSE IF 2 * r >= den THEN DivBits(2 * r - den, den, n - 1, 2 * q + 1)
    ELSE DivBits(2 * r, den, n - 1, 2 * q)

\* x / y for y # 0
FDiv(x, y) ==
    IF x.m = 0 THEN FZero(IF x.s = y.s THEN 0 ELSE 1)
    ELSE Let(\* 24 quotient bits: the leading one, then 23 more
             IF x.m >= y.m THEN DivBits(x.m - y.m, y.m, 23, 1)
             ELSE DivBits(2 * x.m - y.m, y.m, 23, 1),
         LAMBDA qr :
             LET s  == IF x.s = y.s THEN 0 ELSE 1
                 e  == IF x.m >= y.m THEN x.e - y.e - 23 ELSE x.e - y.e - 24
                 up == 2 * qr[2] > y.m \/ (2 * qr[2] = y.m /\ qr[1] % 2 = 1)
                 q1 == IF up THEN qr[1] + 1 ELSE qr[1]
             IN  IF q1 = 16777216 THEN [s |-> s, m |-> 8388608, e |-> e + 1]
                 ELSE [s |-> s, m |-> q1, e |-> e])

(***************************************************************************)
(* Big-endian readers                                                      *)
(***************************************************************************)

read_big_u16(buf, p) == buf[p + 1] * 256 + buf[p + 2]

read_big_u32(buf, p) == U32(read_big_u16(buf, p), read_big_u16(buf, p + 2))

read_big_i32(buf, p) ==
    Let(read_big_u32(buf, p),
        LAMBDA u : IF u[1] >= 32768 THEN (u[1] - Limb) * Limb + u[2]
                   ELSE u[1] * Limb + u[2])

read_big_u64(buf, p) ==
    <<read_big_u16(buf, p), read_big_u16(buf, p + 2),
      read_big_u16(buf, p + 4), read_big_u16(buf, p + 6)>>

\* read_big_i32(ptr) * (1.0f / 65536.0f)
read_big_fixed(buf, p) == FMulPow2(I32ToFloat(read_big_i32(buf, p)), -16)

make_signature(a, b, c, d) == U32(a * 256 + b, c * 256 + d)

(***************************************************************************)
(* Layouts and signatures                                                  *)
(***************************************************************************)

\* A null pointer into the buffer; a pointer into the buffer is the offset it
\* points at.
NULL == -1

\* A pointer to an object (a profile, a tag) is the object it points at, a
\* record with null = FALSE, or the null pointer NullPtr.
NullPtr == [null |-> TRUE]

IsNull(p) == p.null

\* sizeof(header_Layout), the 128-byte header and the tag count
header_Layout_size == 132

\* sizeof(tag_Layout)
tag_Layout_size == 12

\* sizeof(XYZ_Layout)
XYZ_Layout_size == 20

\* sizeof(para_Layout), without the flexible parameters[]
para_Layout_size == 12

\* sizeof(curv_Layout), without the flexible parameters[]
curv_Layout_size == 12

\* enum { kG, kGAB, kGABC, kGABCD, kGABCDEF }
kG == 0
kGAB == 1
kGABC == 2
kGABCD == 3
kGABCDEF == 4

\* static const uint32_t curve_bytes[] = { 4, 12, 16, 20, 28 }, indexed from 0
curve_bytes(function_type) == <<4, 12, 16, 20, 28>>[function_type + 1]

Sig_acsp == make_signature(97, 99, 115, 112)
Sig_XYZ  == make_signature(88, 89, 90, 32)
Sig_para == make_signature(112, 97, 114, 97)
Sig_curv == make_signature(99, 117, 114, 118)
Sig_rXYZ == make_signature(114, 88, 89, 90)
Sig_gXYZ == make_signature(103, 88, 89, 90)
Sig_bXYZ == make_signature(98, 88, 89, 90)
Sig_rTRC == make_signature(114, 84, 82, 67)
Sig_gTRC == make_signature(103, 84, 82, 67)
Sig_bTRC == make_signature(98, 84, 82, 67)
Sig_A2B0 == make_signature(65, 50, 66, 48)
Sig_mft1 == make_signature(109, 102, 116, 49)
Sig_mft2 == make_signature(109, 102, 116, 50)

\* The float constants of the illuminant check: 0.9642f, 1.0000f, 0.8249f, 0.0100f
F_D50_X == [s |-> 0, m |-> 16176592, e |-> -24]
F_D50_Y == F_1
F_D50_Z == [s |-> 0, m |-> 13839525, e |-> -24]
F_Tol   == [s |-> 0, m |-> 10737418, e |-> -30]

(***************************************************************************)
(* Records of the program                                                  *)
(***************************************************************************)

\* A skcms_TransferFunction of seven equal floats v
TF7(v) == [g |-> v, a |-> v, b |-> v, c |-> v, d |-> v, e |-> v, f |-> v]

\* A Curve whose bytes are all zero
ZeroCurve == [parametric |-> TF7(FZero(0)), table |-> NULL, table_size |-> U32(0, 0)]

\* A skcms_Curve (skcms.h) whose bytes are all zero
ZeroTrc == [table_entries |-> 0, table_8 |-> NULL, table_16 |-> NULL]

\* A skcms_ICCTag a caller declared and did not fill
NoTag == [null |-> FALSE, signature |-> U32(0, 0), type |-> U32(0, 0), size |-> U32(0, 0), buf |-> NULL]

ZeroMatrix == [r \in 0..2 |-> [c \in 0..2 |-> FZero(0)]]

\* memset(profile, 0, sizeof(*profile))
ZeroProfile ==
    [null |-> FALSE, buffer |-> NULL,
     size |-> U32(0, 0), cmm_type |-> U32(0, 0), version |-> U32(0, 0),
     profile_class |-> U32(0, 0), data_color_space |-> U32(0, 0), pcs |-> U32(0, 0),
     creation_date_time |-> <<0, 0, 0, 0, 0, 0>>,
     signature |-> U32(0, 0), platform |-> U32(0, 0), flags |-> U32(0, 0),
     device_manufacturer |-> U32(0, 0), device_model |-> U32(0, 0),
     device_attributes |-> <<0, 0, 0, 0>>, rendering_intent |-> U32(0, 0),
     illuminant_X |-> FZero(0), illuminant_Y |-> FZero(0), illuminant_Z |-> FZero(0),
     creator |-> U32(0, 0), profile_id |-> [i \in 1..16 |-> 0],
     tag_count |-> U32(0, 0),
     has_tf |-> FALSE, tf |-> TF7(FZero(0)),
     has_trc |-> FALSE, trc |-> [i \in 0..2 |-> ZeroTrc],
     has_toXYZD50 |-> FALSE, toXYZD50 |-> ZeroMatrix,
     has_A2B |-> FALSE, A2B |-> [input_channels |-> 0, output_channels |-> 0]]

\* skcms_Signature_RGB and skcms_Signature_XYZ
skcms_Signature_RGB == make_signature(82, 71, 66, 32)

skcms_Signature_XYZ == make_signature(88, 89, 90, 32)

\* void skcms_Init(p): the profile after the call
skcms_Init(p) ==
    [ZeroProfile EXCEPT !.data_color_space = skcms_Signature_RGB,
                        !.pcs = skcms_Signature_XYZ]

\* void skcms_SetTransferFunction(p, tf): the profile after the call.  A
\* skcms_Curve is a union: the table pointers share the bytes of parametric,
\* so each curve is left as its table_entries and its parametric member.
skcms_SetTransferFunction(p, tf) ==
    [p EXCEPT !.has_trc = TRUE,
              !.trc = [i \in 0..2 |-> [table_entries |-> 0, parametric |-> tf]]]

\* void skcms_SetXYZD50(p, m): the profile after the call
skcms_SetXYZD50(p, m) == [p EXCEPT !.has_toXYZD50 = TRUE, !.toXYZD50 = m]

(***************************************************************************)
(* Tag lookup                                                              *)
(***************************************************************************)

\* get_tag_table(profile) + i: the offset of tag-table entry i
get_tag_table(i) == header_Layout_size + tag_Layout_size * i

\* The loop of skcms_GetTagBySignature without its early return: the last entry
\* of signature sig wins.
RECURSIVE FindTag_Last(_, _, _, _)
FindTag_Last(mem, sig, i, n) ==
    IF i >= n THEN n
    ELSE Let(FindTag_Last(mem, sig, i + 1, n),
             LAMBDA later : IF later < n THEN later
                            ELSE IF read_big_u32(mem, get_tag_table(i)) = sig THEN i
                            ELSE n)

\* The loop of skcms_GetTagBySignature: the first i in [i, n) whose signature
\* is sig, or n when there is none.
RECURSIVE FindTag(_, _, _, _)
FindTag(mem, sig, i, n) ==
    IF i >= n THEN n
    ELSE IF read_big_u32(mem, get_tag_table(i)) = sig THEN i
    ELSE FindTag(mem, sig, i + 1, n)

\* The four assignments that fill *tag from tag-table entry i.
FillTag(mem, sig, i) ==
    Let(U32ToInt(read_big_u32(mem, get_tag_table(i) + 4)),
        LAMBDA off : [null |-> FALSE, signature |-> sig,
                      size      |-> read_big_u32(mem, get_tag_table(i) + 8),
                      buf       |-> off,
                      type      |-> read_big_u32(mem, off)])

skcms_GetTagBySignature(mem, profile, sig, tag) ==
    IF IsNull(profile) \/ profile.buffer = NULL \/ IsNull(tag)
    THEN [ret |-> FALSE, tag |-> tag]
    ELSE Let(FindTag(mem, sig, 0, U32ToInt(profile.tag_count)),
         LAMBDA i : IF i < U32ToInt(profile.tag_count)
                    THEN [ret |-> TRUE, tag |-> FillTag(mem, sig, i)]
                    ELSE [ret |-> FALSE, tag |-> tag])

\* A pointer the model does not follow: the buffer plus 2^31 bytes or more
FarPtr == -2

\* The word the memory holds at p, a place outside the buffer: the model does
\* not know it, it can be any of the 2^32 words.  The first half, -1, is no
\* half of a uint32_t; the second names the place that was read.
Unknown(p) == <<-1, p>>

\* The buffer plus an unknown word: a pointer the model does not know
UnknownPtr == -3

\* profile->buffer + offset
BufferPlus(offset) ==
    IF offset[1] < 0 THEN UnknownPtr
    ELSE IF offset[1] < 32768 THEN U32ToInt(offset) ELSE FarPtr

\* Whether the four bytes at p are bytes of the buffer
InBuffer(mem, p) == p >= 0 /\ p + 4 <= Len(mem)

\* read_big_u32 at p: the bytes of the buffer, or, for a read outside the
\* buffer (undefined behaviour), whatever word w the memory there holds
ReadOrWild(mem, p, w) == IF InBuffer(mem, p) THEN read_big_u32(mem, p) ELSE w

\* The reads of skcms_GetTagByIndex for entry idx that leave the buffer
WildReads(mem, profile, idx) ==
    IF IsNull(profile) \/ profile.buffer = NULL \/ U32Lt(profile.tag_count, idx) THEN FALSE
    ELSE Let(get_tag_table(U32ToInt(idx)),
             LAMBDA entry :
                 IF ~InBuffer(mem, entry) \/ ~InBuffer(mem, entry + 8) THEN TRUE
                 ELSE ~InBuffer(mem, BufferPlus(read_big_u32(mem, entry + 4))))

\* What the reads of skcms_GetTagByIndex for entry idx find outside the
\* buffer: at every place the unknown word the memory holds there, the last
\* of them at the offset that was read
MemoryOutside(mem, profile, idx) ==
    IF ~WildReads(mem, profile, idx)
    THEN [signature |-> U32(0, 0), size |-> U32(0, 0), offset |-> U32(0, 0),
          type |-> U32(0, 0)]
    ELSE Let(get_tag_table(U32ToInt(idx)),
         LAMBDA entry :
             [signature |-> Unknown(entry), size |-> Unknown(entry + 8),
              offset |-> Unknown(entry + 4),
              type |-> Unknown(BufferPlus(ReadOrWild(mem, entry + 4,
                                                     Unknown(entry + 4))))])

\* void skcms_GetTagByIndex(profile, idx, tag): the tag after the call.  wild
\* gives the words that reads outside the buffer find.
skcms_GetTagByIndex(mem, profile, idx, tag, wild) ==
    IF IsNull(profile) \/ profile.buffer = NULL \/ IsNull(tag) THEN tag
    ELSE IF U32Lt(profile.tag_count, idx) THEN tag
    ELSE Let(get_tag_table(U32ToInt(idx)),
         LAMBDA entry :
             Let(BufferPlus(ReadOrWild(mem, entry + 4, wild.offset)),
                 LAMBDA buf : [null |-> FALSE,
                               signature |-> ReadOrWild(mem, entry, wild.signature),
                               size      |-> ReadOrWild(mem, entry + 8, wild.size),
                               buf       |-> buf,
                               type      |-> ReadOrWild(mem, buf, wild.type)]))

(***************************************************************************)
(* XYZ tags                                                                *)
(***************************************************************************)

read_tag_xyz(mem, tag) ==
    IF ~IsNull(tag) /\ tag.type = Sig_XYZ
         /\ ~U64Lt(U64FromU32(tag.size), SAFE_SIZEOF(XYZ_Layout_size))
    THEN [ret |-> TRUE,
          x |-> read_big_fixed(mem, tag.buf + 8),
          y |-> read_big_fixed(mem, tag.buf + 12),
          z |-> read_big_fixed(mem, tag.buf + 16)]
    ELSE [ret |-> FALSE]

\* toXYZ with row c set to (x, y, z): the transpose of what read_to_XYZD50 fills.
SetColumn_AsRow(toXYZ, c, v) ==
    [r \in 0..2 |-> [k \in 0..2 |-> IF r # c THEN toXYZ[r][k]
                                    ELSE IF k = 0 THEN v.x ELSE IF k = 1 THEN v.y ELSE v.z]]

\* toXYZ with column c set to (x, y, z)
SetColumn(toXYZ, c, v) ==
    [r \in 0..2 |-> [k \in 0..2 |-> IF k # c THEN toXYZ[r][k]
                                    ELSE IF r = 0 THEN v.x ELSE IF r = 1 THEN v.y ELSE v.z]]

\* toXYZ is &profile->toXYZD50 at the only call, never null.
read_to_XYZD50(mem, profile, toXYZ) ==
    IF IsNull(profile) THEN [ret |-> FALSE, toXYZ |-> toXYZ]
    ELSE Let(<<skcms_GetTagBySignature(mem, profile, Sig_rXYZ, NoTag),
               skcms_GetTagBySignature(mem, profile, Sig_gXYZ, NoTag),
               skcms_GetTagBySignature(mem, profile, Sig_bXYZ, NoTag)>>,
         LAMBDA xyz :
             IF ~xyz[1].ret \/ ~xyz[2].ret \/ ~xyz[3].ret
             THEN [ret |-> FALSE, toXYZ |-> toXYZ]
             ELSE Let(<<read_tag_xyz(mem, xyz[1].tag), read_tag_xyz(mem, xyz[2].tag),
                        read_tag_xyz(mem, xyz[3].tag)>>,
                  LAMBDA v :
                      IF ~v[1].ret THEN [ret |-> FALSE, toXYZ |-> toXYZ]
                      ELSE IF ~v[2].ret
                      THEN [ret |-> FALSE, toXYZ |-> SetColumn(toXYZ, 0, v[1])]
                      ELSE IF ~v[3].ret
                      THEN [ret |-> FALSE,
                            toXYZ |-> SetColumn(SetColumn(toXYZ, 0, v[1]), 1, v[2])]
                      ELSE [ret |-> TRUE,
                            toXYZ |-> SetColumn(SetColumn(SetColumn(toXYZ, 0, v[1]),
                                                          1, v[2]), 2, v[3])]))

(***************************************************************************)
(* Transfer curves                                                         *)
(***************************************************************************)

\* paraTag->parameters + 4 * k, read as s15.16
ParaParam(mem, buf, k) == read_big_fixed(mem, buf + para_Layout_size + 4 * k)

\* The assignments before the switch of read_curve_para.
ParaBase(g) ==
    [table |-> NULL, table_size |-> U32(0, 0),
     parametric |-> [g |-> g, a |-> F_1, b |-> FZero(0), c |-> FZero(0),
                     d |-> FZero(0), e |-> FZero(0), f |-> FZero(0)]]

\* ParaSwitch with the ICC reading of type 2 (the fourth stored parameter is c),
\* which read_curve_para does not follow.
ParaSwitch_FourthIsC(function_type, P) ==
    CASE function_type \in {kGAB, kGABC} /\ FIsZero(P[1]) ->
           [ret |-> FALSE, curve |-> [ParaBase(P[0]) EXCEPT !.parametric.a = P[1],
                                                            !.parametric.b = P[2]]]
      [] function_type = kGAB ->
           [ret |-> TRUE,
            curve |-> [ParaBase(P[0]) EXCEPT !.parametric.a = P[1], !.parametric.b = P[2],
                                             !.parametric.d = FDiv(FNeg(P[2]), P[1])]]
      [] function_type = kGABC ->
           [ret |-> TRUE,
            curve |-> [ParaBase(P[0]) EXCEPT !.parametric.a = P[1], !.parametric.b = P[2],
                                             !.parametric.c = P[3],
                                             !.parametric.d = FDiv(FNeg(P[2]), P[1])]]
      [] function_type = kGABCD ->
           [ret |-> TRUE,
            curve |-> [ParaBase(P[0]) EXCEPT !.parametric.a = P[1], !.parametric.b = P[2],
                                             !.parametric.c = P[3], !.parametric.d = P[4]]]
      [] function_type = kGABCDEF ->
           [ret |-> TRUE,
            curve |-> [ParaBase(P[0]) EXCEPT !.parametric.a = P[1], !.parametric.b = P[2],
                                             !.parametric.c = P[3], !.parametric.d = P[4],
                                             !.parametric.e = P[5], !.parametric.f = P[6]]]
      [] OTHER -> [ret |-> TRUE, curve |-> ParaBase(P[0])]

\* The switch of read_curve_para; P[k] is the s15.16 word at parameters + 4 * k,
\* for the k the tag's function type stores.
ParaSwitch(function_type, P) ==
    CASE function_type = kGAB ->
           IF FIsZero(P[1])
           THEN [ret |-> FALSE,
                 curve |-> [ParaBase(P[0]) EXCEPT !.parametric.a = P[1],
                                                  !.parametric.b = P[2]]]
           ELSE [ret |-> TRUE,
                 curve |-> [ParaBase(P[0]) EXCEPT !.parametric.a = P[1],
                                                  !.parametric.b = P[2],
                                                  !.parametric.d = FDiv(FNeg(P[2]), P[1])]]
      [] function_type = kGABC ->
           IF FIsZero(P[1])
           THEN [ret |-> FALSE,
                 curve |-> [ParaBase(P[0]) EXCEPT !.parametric.a = P[1],
                                                  !.parametric.b = P[2],
                                                  !.parametric.e = P[3]]]
           ELSE [ret |-> TRUE,
                 curve |-> [ParaBase(P[0]) EXCEPT !.parametric.a = P[1],
                                                  !.parametric.b = P[2],
                                                  !.parametric.e = P[3],
                                                  !.parametric.d = FDiv(FNeg(P[2]), P[1]),
                                                  !.parametric.f = P[3]]]
      [] function_type = kGABCD ->
           [ret |-> TRUE,
            curve |-> [ParaBase(P[0]) EXCEPT !.parametric.a = P[1], !.parametric.b = P[2],
                                             !.parametric.c = P[3], !.parametric.d = P[4]]]
      [] function_type = kGABCDEF ->
           [ret |-> TRUE,
            curve |-> [ParaBase(P[0]) EXCEPT !.parametric.a = P[1], !.parametric.b = P[2],
                                             !.parametric.c = P[3], !.parametric.d = P[4],
                                             !.parametric.e = P[5], !.parametric.f = P[6]]]
      [] OTHER -> [ret |-> TRUE, curve |-> ParaBase(P[0])]

read_curve_para(mem, buf, size, curve) ==
    IF U64Lt(U64FromU32(size), SAFE_SIZEOF(para_Layout_size))
    THEN [ret |-> FALSE, curve |-> curve]
    ELSE Let(read_big_u16(mem, buf + 8),
         LAMBDA function_type :
             IF function_type > kGABCDEF THEN [ret |-> FALSE, curve |-> curve]
             ELSE IF U64Lt(U64FromU32(size),
                           U64Add(SAFE_SIZEOF(para_Layout_size),
                                  U64FromInt(curve_bytes(function_type))))
             THEN [ret |-> FALSE, curve |-> curve]
             ELSE ParaSwitch(function_type,
                             [k \in 0..6 |->
                                IF k < curve_bytes(function_type) \div 4
                                THEN ParaParam(mem, buf, k) ELSE FZero(0)]))

\* read_curve_curv with the size of the samples computed in 32 bits.
read_curve_curv_Wrap32(mem, buf, size, curve) ==
    IF U64Lt(U64FromU32(size), SAFE_SIZEOF(curv_Layout_size))
    THEN [ret |-> FALSE, curve |-> curve]
    ELSE Let(read_big_u32(mem, buf + 8),
         LAMBDA value_count :
             IF U64Lt(U64FromU32(size),
                      U64Add(SAFE_SIZEOF(curv_Layout_size),
                             U64FromU32(<<(2 * value_count[1] + (2 * value_count[2]) \div Limb)
                                            % Limb,
                                          (2 * value_count[2]) % Limb>>)))
             THEN [ret |-> FALSE, curve |-> curve]
             ELSE IF U32Lt(value_count, U32(0, 2))
             THEN [ret |-> TRUE,
                   curve |-> [table |-> NULL, table_size |-> U32(0, 0),
                              parametric |->
                                [g |-> IF value_count = U32(0, 0) THEN F_1
                                       ELSE FMulPow2(I32ToFloat(
                                              read_big_u16(mem, buf + curv_Layout_size)), -8),
                                 a |-> F_1, b |-> FZero(0), c |-> FZero(0),
                                 d |-> FZero(0), e |-> FZero(0), f |-> FZero(0)]]]
             ELSE [ret |-> TRUE,
                   curve |-> [parametric |-> TF7(FZero(0)),
                              table_size |-> value_count,
                              table |-> buf + curv_Layout_size]])

read_curve_curv(mem, buf, size, curve) ==
    IF U64Lt(U64FromU32(size), SAFE_SIZEOF(curv_Layout_size))
    THEN [ret |-> FALSE, curve |-> curve]
    ELSE Let(read_big_u32(mem, buf + 8),
         LAMBDA value_count :
             IF U64Lt(U64FromU32(size),
                      U64Add(SAFE_SIZEOF(curv_Layout_size),
                             U64MulSmall(U64FromU32(value_count), 2)))
             THEN [ret |-> FALSE, curve |-> curve]
             ELSE IF U32Lt(value_count, U32(0, 2))
             THEN [ret |-> TRUE,
                   curve |-> [table |-> NULL, table_size |-> U32(0, 0),
                              parametric |->
                                [g |-> IF value_count = U32(0, 0) THEN F_1
                                       ELSE FMulPow2(I32ToFloat(
                                              read_big_u16(mem, buf + curv_Layout_size)), -8),
                                 a |-> F_1, b |-> FZero(0), c |-> FZero(0),
                                 d |-> FZero(0), e |-> FZero(0), f |-> FZero(0)]]]
             ELSE [ret |-> TRUE,
                   curve |-> [parametric |-> TF7(FZero(0)),
                              table_size |-> value_count,
                              table |-> buf + curv_Layout_size]])

\* curve is the address of a local Curve at every call, never null.
read_curve(mem, buf, size, curve) ==
    IF buf = NULL \/ U32Lt(size, U32(0, 4)) THEN [ret |-> FALSE, curve |-> curve]
    ELSE Let(read_big_u32(mem, buf),
         LAMBDA type :
             IF type = Sig_para THEN read_curve_para(mem, buf, size, curve)
             ELSE IF type = Sig_curv THEN read_curve_curv(mem, buf, size, curve)
             ELSE [ret |-> FALSE, curve |-> curve])

\* memcmp(&x, &y, sizeof(skcms_TransferFunction)) == 0: seven floats, no padding
TFBytesEqual(x, y) == x = y

\* transferFunction is &profile->tf at the only call, never null.
\* get_transfer_function without its second memcmp: the blue curve is decoded
\* and never compared.
get_transfer_function_RedGreen(mem, profile, transferFunction) ==
    IF IsNull(profile) THEN [ret |-> FALSE, tf |-> transferFunction]
    ELSE Let(<<skcms_GetTagBySignature(mem, profile, Sig_rTRC, NoTag),
               skcms_GetTagBySignature(mem, profile, Sig_gTRC, NoTag),
               skcms_GetTagBySignature(mem, profile, Sig_bTRC, NoTag)>>,
         LAMBDA TRC :
             IF ~TRC[1].ret \/ ~TRC[2].ret \/ ~TRC[3].ret
             THEN [ret |-> FALSE, tf |-> transferFunction]
             ELSE Let(<<read_curve(mem, TRC[1].tag.buf, TRC[1].tag.size, ZeroCurve),
                        read_curve(mem, TRC[2].tag.buf, TRC[2].tag.size, ZeroCurve),
                        read_curve(mem, TRC[3].tag.buf, TRC[3].tag.size, ZeroCurve)>>,
                  LAMBDA Curves :
                      IF \/ ~Curves[1].ret \/ Curves[1].curve.table # NULL
                         \/ ~Curves[2].ret \/ Curves[2].curve.table # NULL
                         \/ ~Curves[3].ret \/ Curves[3].curve.table # NULL
                      THEN [ret |-> FALSE, tf |-> transferFunction]
                      ELSE IF ~TFBytesEqual(Curves[1].curve.parametric,
                                            Curves[2].curve.parametric)
                      THEN [ret |-> FALSE, tf |-> transferFunction]
                      ELSE [ret |-> TRUE, tf |-> Curves[1].curve.parametric]))

get_transfer_function(mem, profile, transferFunction) ==
    IF IsNull(profile) THEN [ret |-> FALSE, tf |-> transferFunction]
    ELSE Let(<<skcms_GetTagBySignature(mem, profile, Sig_rTRC, NoTag),
               skcms_GetTagBySignature(mem, profile, Sig_gTRC, NoTag),
               skcms_GetTagBySignature(mem, profile, Sig_bTRC, NoTag)>>,
         LAMBDA TRC :
             IF ~TRC[1].ret \/ ~TRC[2].ret \/ ~TRC[3].ret
             THEN [ret |-> FALSE, tf |-> transferFunction]
             ELSE Let(<<read_curve(mem, TRC[1].tag.buf, TRC[1].tag.size, ZeroCurve),
                        read_curve(mem, TRC[2].tag.buf, TRC[2].tag.size, ZeroCurve),
                        read_curve(mem, TRC[3].tag.buf, TRC[3].tag.size, ZeroCurve)>>,
                  LAMBDA Curves :
                      IF \/ ~Curves[1].ret \/ Curves[1].curve.table # NULL
                         \/ ~Curves[2].ret \/ Curves[2].curve.table # NULL
                         \/ ~Curves[3].ret \/ Curves[3].curve.table # NULL
                      THEN [ret |-> FALSE, tf |-> transferFunction]
                      ELSE IF \/ ~TFBytesEqual(Curves[1].curve.parametric,
                                               Curves[2].curve.parametric)
                              \/ ~TFBytesEqual(Curves[1].curve.parametric,
                                               Curves[3].curve.parametric)
                      THEN [ret |-> FALSE, tf |-> transferFunction]
                      ELSE [ret |-> TRUE, tf |-> Curves[1].curve.parametric]))

(***************************************************************************)
(* Multi-function tables (A2B0 of type 'mft1' or 'mft2')                   *)
(***************************************************************************)

\* sizeof(mft1_Layout) and sizeof(mft2_Layout), without the flexible tables[]
mft1_Layout_size == 48
mft2_Layout_size == 52

\* ARRAY_COUNT(mft->input_tables) and ARRAY_COUNT(mft->output_tables)
MaxInputTables == 4
NumOutputTables == 3

\* A skcms_MultiFunctionTable a caller declared and did not fill
NoMft ==
    [null |-> FALSE, matrix |-> ZeroMatrix,
     input_channels |-> 0, grid_points |-> 0, output_channels |-> 0,
     input_table_size |-> 0, output_table_size |-> 0, table_byte_width |-> 0,
     input_tables |-> [i \in 0..3 |-> NULL], grid |-> NULL,
     output_tables |-> [i \in 0..2 |-> NULL]]

\* mftTag is the offset of the tag's mft_CommonLayout.
read_mft_common(mem, mftTag, mft) ==
    Let([mft EXCEPT
           !.matrix = [r \in 0..2 |-> [c \in 0..2 |->
                         read_big_fixed(mem, mftTag + 12 + 4 * (3 * r + c))]],
           !.input_channels  = mem[mftTag + 8 + 1],
           !.grid_points     = mem[mftTag + 10 + 1],
           !.output_channels = mem[mftTag + 9 + 1]],
        LAMBDA m1 :
            IF m1.output_channels # NumOutputTables THEN [ret |-> FALSE, mft |-> m1]
            ELSE IF m1.input_channels < 1 \/ m1.input_channels > MaxInputTables
            THEN [ret |-> FALSE, mft |-> m1]
            ELSE IF m1.grid_points < 2 THEN [ret |-> FALSE, mft |-> m1]
            ELSE [ret |-> TRUE, mft |-> m1])

\* uint64_t grid_size after `axes` more rounds of grid_size *= mft->grid_points
RECURSIVE GridSize(_, _, _)
GridSize(g, grid_points, axes) ==
    IF axes = 0 THEN g ELSE GridSize(U64MulSmall(g, grid_points), grid_points, axes - 1)

\* init_mft_tables without the output tables in the length it asks for.
init_mft_tables_NoOutput(table_base, max_tables_len, mft) ==
    Let([byte_len_per_input_table   |-> mft.input_table_size * mft.table_byte_width,
         byte_len_per_output_table  |-> mft.output_table_size * mft.table_byte_width,
         byte_len_all_input_tables  |->
             U64MulSmall(U64FromInt(mft.input_table_size * mft.table_byte_width),
                         mft.input_channels),
         grid_size |-> GridSize(U64FromInt(mft.output_channels * mft.table_byte_width),
                                mft.grid_points, mft.input_channels)],
        LAMBDA n :
            IF U64Lt(max_tables_len, U64Add(n.byte_len_all_input_tables, n.grid_size))
            THEN [ret |-> FALSE, mft |-> mft]
            ELSE [ret |-> TRUE,
                  mft |-> [mft EXCEPT
                     !.input_tables = [i \in 0..3 |->
                          IF i < mft.input_channels
                          THEN table_base + i * n.byte_len_per_input_table
                          ELSE mft.input_tables[i]],
                     !.grid = table_base + U64ToInt(n.byte_len_all_input_tables),
                     !.output_tables = [i \in 0..2 |->
                          table_base + U64ToInt(n.byte_len_all_input_tables)
                            + U64ToInt(n.grid_size) + i * n.byte_len_per_output_table]]])

\* init_mft_tables with the output tables placed right after the input tables,
\* the grid left out of their pointers.
init_mft_tables_OutputOverGrid(table_base, max_tables_len, mft) ==
    Let([byte_len_per_input_table   |-> mft.input_table_size * mft.table_byte_width,
         byte_len_per_output_table  |-> mft.output_table_size * mft.table_byte_width,
         byte_len_all_input_tables  |->
             U64MulSmall(U64FromInt(mft.input_table_size * mft.table_byte_width),
                         mft.input_channels),
         byte_len_all_output_tables |->
             U64MulSmall(U64FromInt(mft.output_table_size * mft.table_byte_width),
                         mft.output_channels),
         grid_size |-> GridSize(U64FromInt(mft.output_channels * mft.table_byte_width),
                                mft.grid_points, mft.input_channels)],
        LAMBDA n :
            IF U64Lt(max_tables_len,
                     U64Add(U64Add(n.byte_len_all_input_tables, n.grid_size),
                            n.byte_len_all_output_tables))
            THEN [ret |-> FALSE, mft |-> mft]
            ELSE [ret |-> TRUE,
                  mft |-> [mft EXCEPT
                     !.input_tables = [i \in 0..3 |->
                          IF i < mft.input_channels
                          THEN table_base + i * n.byte_len_per_input_table
                          ELSE mft.input_tables[i]],
                     !.grid = table_base + U64ToInt(n.byte_len_all_input_tables),
                     !.output_tables = [i \in 0..2 |->
                          table_base + U64ToInt(n.byte_len_all_input_tables)
                            + i * n.byte_len_per_output_table]]])

\* table_base is an offset into the buffer, max_tables_len a uint64_t.
init_mft_tables(table_base, max_tables_len, mft) ==
    Let([byte_len_per_input_table   |-> mft.input_table_size * mft.table_byte_width,
         byte_len_per_output_table  |-> mft.output_table_size * mft.table_byte_width,
         byte_len_all_input_tables  |->
             U64MulSmall(U64FromInt(mft.input_table_size * mft.table_byte_width),
                         mft.input_channels),
         byte_len_all_output_tables |->
             U64MulSmall(U64FromInt(mft.output_table_size * mft.table_byte_width),
                         mft.output_channels),
         grid_size |-> GridSize(U64FromInt(mft.output_channels * mft.table_byte_width),
                                mft.grid_points, mft.input_channels)],
        LAMBDA n :
            IF U64Lt(max_tables_len,
                     U64Add(U64Add(n.byte_len_all_input_tables, n.grid_size),
                            n.byte_len_all_output_tables))
            THEN [ret |-> FALSE, mft |-> mft]
            ELSE [ret |-> TRUE,
                  mft |-> [mft EXCEPT
                     !.input_tables = [i \in 0..3 |->
                          IF i < mft.input_channels
                          THEN table_base + i * n.byte_len_per_input_table
                          ELSE mft.input_tables[i]],
                     !.grid = table_base + U64ToInt(n.byte_len_all_input_tables),
                     !.output_tables = [i \in 0..2 |->
                          table_base + U64ToInt(n.byte_len_all_input_tables)
                            + U64ToInt(n.grid_size) + i * n.byte_len_per_output_table]]])

\* tag->size - SAFE_SIZEOF(layout), for tag->size >= the layout's size
TablesLen(size, layout_size) ==
    LET borrow == IF size[2] < layout_size THEN 1 ELSE 0
    IN  <<0, 0, size[1] - borrow, size[2] + borrow * Limb - layout_size>>

read_tag_mft1(mem, tag, mft) ==
    IF U64Lt(U64FromU32(tag.size), SAFE_SIZEOF(mft1_Layout_size))
    THEN [ret |-> FALSE, mft |-> mft]
    ELSE Let(read_mft_common(mem, tag.buf, mft),
         LAMBDA common :
             IF ~common.ret THEN common
             ELSE init_mft_tables(tag.buf + mft1_Layout_size,
                                  TablesLen(tag.size, mft1_Layout_size),
                                  [common.mft EXCEPT !.input_table_size = 256,
                                                     !.output_table_size = 256,
                                                     !.table_byte_width = 1]))

\* read_tag_mft2 without the upper limit on the table sizes.
read_tag_mft2_NoUpperLimit(mem, tag, mft) ==
    IF U64Lt(U64FromU32(tag.size), SAFE_SIZEOF(mft2_Layout_size))
    THEN [ret |-> FALSE, mft |-> mft]
    ELSE Let(read_mft_common(mem, tag.buf, mft),
         LAMBDA common :
             IF ~common.ret THEN common
             ELSE Let([common.mft EXCEPT
                         !.input_table_size  = read_big_u16(mem, tag.buf + 48),
                         !.output_table_size = read_big_u16(mem, tag.buf + 50),
                         !.table_byte_width  = 2],
                  LAMBDA m1 :
                      IF m1.input_table_size < 2 \/ m1.output_table_size < 2
                      THEN [ret |-> FALSE, mft |-> m1]
                      ELSE init_mft_tables(tag.buf + mft2_Layout_size,
                                           TablesLen(tag.size, mft2_Layout_size), m1)))

read_tag_mft2(mem, tag, mft) ==
    IF U64Lt(U64FromU32(tag.size), SAFE_SIZEOF(mft2_Layout_size))
    THEN [ret |-> FALSE, mft |-> mft]
    ELSE Let(read_mft_common(mem, tag.buf, mft),
         LAMBDA common :
             IF ~common.ret THEN common
             ELSE Let([common.mft EXCEPT
                         !.input_table_size  = read_big_u16(mem, tag.buf + 48),
                         !.output_table_size = read_big_u16(mem, tag.buf + 50),
                         !.table_byte_width  = 2],
                  LAMBDA m1 :
                      IF \/ m1.input_table_size < 2 \/ m1.input_table_size > 4096
                         \/ m1.output_table_size < 2 \/ m1.output_table_size > 4096
                      THEN [ret |-> FALSE, mft |-> m1]
                      ELSE init_mft_tables(tag.buf + mft2_Layout_size,
                                           TablesLen(tag.size, mft2_Layout_size), m1)))

skcms_GetMultiFunctionTable(mem, profile, mft) ==
    IF IsNull(profile) \/ IsNull(mft) THEN [ret |-> FALSE, mft |-> mft]
    ELSE Let(skcms_GetTagBySignature(mem, profile, Sig_A2B0, NoTag),
         LAMBDA a2b :
             IF ~a2b.ret THEN [ret |-> FALSE, mft |-> mft]
             ELSE IF a2b.tag.type = Sig_mft1 THEN read_tag_mft1(mem, a2b.tag, mft)
             ELSE IF a2b.tag.type = Sig_mft2 THEN read_tag_mft2(mem, a2b.tag, mft)
             ELSE [ret |-> FALSE, mft |-> mft])

(***************************************************************************)
(* skcms_Parse                                                             *)
(***************************************************************************)

\* "Byte-swap all header fields": the assignments of skcms_Parse to the header
\* fields of profile.
ReadHeader(mem, profile) ==
    [profile EXCEPT
       !.buffer              = 0,
       !.size                = read_big_u32(mem, 0),
       !.cmm_type            = read_big_u32(mem, 4),
       !.version             = read_big_u32(mem, 8),
       !.profile_class       = read_big_u32(mem, 12),
       !.data_color_space    = read_big_u32(mem, 16),
       !.pcs                 = read_big_u32(mem, 20),
       !.creation_date_time  = [i \in 1..6 |-> read_big_u16(mem, 24 + 2 * (i - 1))],
       !.signature           = read_big_u32(mem, 36),
       !.platform            = read_big_u32(mem, 40),
       !.flags               = read_big_u32(mem, 44),
       !.device_manufacturer = read_big_u32(mem, 48),
       !.device_model        = read_big_u32(mem, 52),
       !.device_attributes   = read_big_u64(mem, 56),
       !.rendering_intent    = read_big_u32(mem, 64),
       !.illuminant_X        = read_big_fixed(mem, 68),
       !.illuminant_Y        = read_big_fixed(mem, 72),
       !.illuminant_Z        = read_big_fixed(mem, 76),
       !.creator             = read_big_u32(mem, 80),
       !.profile_id          = [i \in 1..16 |-> mem[84 + i]],
       !.tag_count           = read_big_u32(mem, 128)]

\* uint64_t tag_table_size = profile->tag_count * SAFE_SIZEOF(tag_Layout)
tag_table_size(profile) == U64MulSmall(U64FromU32(profile.tag_count), tag_Layout_size)

\* The header check with the size bound one byte too low.
BadHeader_OneByteShort(profile, len) ==
    \/ profile.signature # Sig_acsp
    \/ U32GtInt(profile.size, len)
    \/ U64Lt(U64Add(U64FromU32(profile.size), U64FromInt(1)),
             U64Add(SAFE_SIZEOF(header_Layout_size), tag_table_size(profile)))
    \/ U32Shr24(profile.version) > 4

\* The header check letting major version 5 through.
BadHeader_Version5(profile, len) ==
    \/ profile.signature # Sig_acsp
    \/ U32GtInt(profile.size, len)
    \/ U64Lt(U64FromU32(profile.size),
             U64Add(SAFE_SIZEOF(header_Layout_size), tag_table_size(profile)))
    \/ U32Shr24(profile.version) > 5

\* The signature, size and major version check: TRUE when the profile is rejected.
BadHeader(profile, len) ==
    \/ profile.signature # Sig_acsp
    \/ U32GtInt(profile.size, len)
    \/ U64Lt(U64FromU32(profile.size),
             U64Add(SAFE_SIZEOF(header_Layout_size), tag_table_size(profile)))
    \/ U32Shr24(profile.version) > 4

\* The illuminant check without fabsf: only values above D50 are rejected.
BadIlluminant_NoAbs(profile) ==
    \/ FGt(FSub(profile.illuminant_X, F_D50_X), F_Tol)
    \/ FGt(FSub(profile.illuminant_Y, F_D50_Y), F_Tol)
    \/ FGt(FSub(profile.illuminant_Z, F_D50_Z), F_Tol)

\* The D50 illuminant check: TRUE when the profile is rejected.
BadIlluminant(profile) ==
    \/ FGt(FAbs(FSub(profile.illuminant_X, F_D50_X)), F_Tol)
    \/ FGt(FAbs(FSub(profile.illuminant_Y, F_D50_Y)), F_Tol)
    \/ FGt(FAbs(FSub(profile.illuminant_Z, F_D50_Z)), F_Tol)

\* The sum of two uint32_t, computed in 32 bits
U32AddWrap(x, y) ==
    <<(x[1] + y[1] + (x[2] + y[2]) \div Limb) % Limb, (x[2] + y[2]) % Limb>>

\* The tag-entry check with tag_end computed in 32 bits instead of 64.
BadTagEntry_Wrap32(mem, profile, i) ==
    Let(<<read_big_u32(mem, get_tag_table(i) + 4), read_big_u32(mem, get_tag_table(i) + 8)>>,
        LAMBDA e :
            \/ U32Lt(e[2], U32(0, 4))
            \/ U64Lt(U64FromU32(profile.size), U64FromU32(U32AddWrap(e[1], e[2]))))

\* The tag-entry check without its tag_size < 4 test.
BadTagEntry_NoMinSize(mem, profile, i) ==
    Let(<<read_big_u32(mem, get_tag_table(i) + 4), read_big_u32(mem, get_tag_table(i) + 8)>>,
        LAMBDA e :
            U64Lt(U64FromU32(profile.size), U64Add(U64FromU32(e[1]), U64FromU32(e[2]))))

\* The body of the tag-table loop for entry i: TRUE when the entry is rejected.
BadTagEntry(mem, profile, i) ==
    Let(<<read_big_u32(mem, get_tag_table(i) + 4), read_big_u32(mem, get_tag_table(i) + 8)>>,
        LAMBDA e :
            LET tag_offset == e[1]
                tag_size   == e[2]
                tag_end    == U64Add(U64FromU32(tag_offset), U64FromU32(tag_size))
            IN  U32Lt(tag_size, U32(0, 4)) \/ U64Lt(U64FromU32(profile.size), tag_end))

\* The tag-table loop: TRUE when some entry i < tag_count is rejected.
BadTagTable(mem, profile) ==
    \E i \in 0..(U32ToInt(profile.tag_count) - 1) : BadTagEntry(mem, profile, i)

\* "Pre-parse commonly used tags."
PreParse(mem, profile) ==
    Let(get_transfer_function(mem, profile, profile.tf),
        LAMBDA tf :
            Let([profile EXCEPT !.has_tf = tf.ret, !.tf = tf.tf],
                LAMBDA p1 :
                    Let(read_to_XYZD50(mem, p1, p1.toXYZD50),
                        LAMBDA xyz : [p1 EXCEPT !.has_toXYZD50 = xyz.ret,
                                                !.toXYZD50 = xyz.toXYZ])))

\* skcms_Parse without its memset: the header fields are written over what the
\* caller's profile held.
skcms_Parse_NoMemset(mem, len, profile) ==
    IF IsNull(profile) THEN [ret |-> FALSE, profile |-> profile]
    ELSE IF len < header_Layout_size THEN [ret |-> FALSE, profile |-> profile]
    ELSE Let(ReadHeader(mem, profile),
         LAMBDA p :
             IF BadHeader(p, len) THEN [ret |-> FALSE, profile |-> p]
             ELSE IF BadIlluminant(p) THEN [ret |-> FALSE, profile |-> p]
             ELSE IF BadTagTable(mem, p) THEN [ret |-> FALSE, profile |-> p]
             ELSE [ret |-> TRUE, profile |-> PreParse(mem, p)])

\* skcms_Parse failing when the transfer function cannot be pre-parsed.
skcms_Parse_NeedsTF(mem, len, profile) ==
    IF IsNull(profile) THEN [ret |-> FALSE, profile |-> profile]
    ELSE IF len < header_Layout_size THEN [ret |-> FALSE, profile |-> ZeroProfile]
    ELSE Let(ReadHeader(mem, ZeroProfile),
         LAMBDA p :
             IF BadHeader(p, len) THEN [ret |-> FALSE, profile |-> p]
             ELSE IF BadIlluminant(p) THEN [ret |-> FALSE, profile |-> p]
             ELSE IF BadTagTable(mem, p) THEN [ret |-> FALSE, profile |-> p]
             ELSE Let(PreParse(mem, p),
                      LAMBDA q : [ret |-> q.has_tf, profile |-> q]))

\* skcms_Parse(buf, len, profile): mem is the len bytes at buf, profile the
\* object the caller passed (its previous contents) or NullPtr.
skcms_Parse(mem, len, profile) ==
    IF IsNull(profile) THEN [ret |-> FALSE, profile |-> profile]
    ELSE IF len < header_Layout_size THEN [ret |-> FALSE, profile |-> ZeroProfile]
    ELSE Let(ReadHeader(mem, ZeroProfile),
         LAMBDA p :
             IF BadHeader(p, len) THEN [ret |-> FALSE, profile |-> p]
             ELSE IF BadIlluminant(p) THEN [ret |-> FALSE, profile |-> p]
             ELSE IF BadTagTable(mem, p) THEN [ret |-> FALSE, profile |-> p]
             ELSE [ret |-> TRUE, profile |-> PreParse(mem, p)])

(***************************************************************************)
(* The bytes each routine reads from the buffer, as C offsets from         *)
(* profile->buffer.  Every read_big_u16, read_big_u32 and read_big_fixed   *)
(* call of a routine contributes the bytes of its operand.                 *)
(***************************************************************************)

\* The n bytes starting at offset p
Span(p, n) == p .. (p + n - 1)

\* skcms_GetTagBySignature on a profile with a buffer: the signature of every
\* entry up to the match, then the offset and size of the matching entry and
\* the type at the start of the tag.
reads_GetTagBySignature(mem, profile, sig) ==
    Let(FindTag(mem, sig, 0, U32ToInt(profile.tag_count)),
        LAMBDA i :
            IF i >= U32ToInt(profile.tag_count)
            THEN UNION {Span(get_tag_table(j), 4) : j \in 0..(i - 1)}
            ELSE UNION {Span(get_tag_table(j), 4) : j \in 0..i}
                   \cup Span(get_tag_table(i) + 4, 8)
                   \cup Span(U32ToInt(read_big_u32(mem, get_tag_table(i) + 4)), 4))

\* skcms_GetTagByIndex past its guard: the twelve bytes of entry idx and the
\* type at the start of the tag.
reads_GetTagByIndex(mem, profile, idx) ==
    Span(get_tag_table(U32ToInt(idx)), tag_Layout_size)
      \cup Span(U32ToInt(read_big_u32(mem, get_tag_table(U32ToInt(idx)) + 4)), 4)

\* read_tag_xyz: X, Y and Z, once the type and the size are accepted
reads_read_tag_xyz(mem, tag) ==
    IF read_tag_xyz(mem, tag).ret THEN Span(tag.buf + 8, 12) ELSE {}

\* read_curve_para: function_type, then the curve_bytes[function_type] bytes
\* of the parameters
reads_read_curve_para(mem, buf, size) ==
    IF U64Lt(U64FromU32(size), SAFE_SIZEOF(para_Layout_size)) THEN {}
    ELSE Let(read_big_u16(mem, buf + 8),
         LAMBDA function_type :
             IF function_type > kGABCDEF THEN Span(buf + 8, 2)
             ELSE IF U64Lt(U64FromU32(size),
                           U64Add(SAFE_SIZEOF(para_Layout_size),
                                  U64FromInt(curve_bytes(function_type))))
             THEN Span(buf + 8, 2)
             ELSE Span(buf + 8, 2)
                    \cup Span(buf + para_Layout_size, curve_bytes(function_type)))

\* read_curve_curv: value_count, and the one 16-bit gamma when value_count is 1
reads_read_curve_curv(mem, buf, size) ==
    IF U64Lt(U64FromU32(size), SAFE_SIZEOF(curv_Layout_size)) THEN {}
    ELSE Let(read_big_u32(mem, buf + 8),
         LAMBDA value_count :
             IF U64Lt(U64FromU32(size),
                      U64Add(SAFE_SIZEOF(curv_Layout_size),
                             U64MulSmall(U64FromU32(value_count), 2)))
             THEN Span(buf + 8, 4)
             ELSE IF value_count = U32(0, 1)
             THEN Span(buf + 8, 4) \cup Span(buf + curv_Layout_size, 2)
             ELSE Span(buf + 8, 4))

\* read_curve: the type, then what the decoder of that type reads
reads_read_curve(mem, buf, size) ==
    IF buf = NULL \/ U32Lt(size, U32(0, 4)) THEN {}
    ELSE Let(read_big_u32(mem, buf),
         LAMBDA type :
             Span(buf, 4)
               \cup IF type = Sig_para THEN reads_read_curve_para(mem, buf, size)
                    ELSE IF type = Sig_curv THEN reads_read_curve_curv(mem, buf, size)
                    ELSE {})

(***************************************************************************)
(* skcms_Transform: pixel format conversion                                *)
(*                                                                         *)
(* A pipeline of Load, Swap RB and Store over the pixels of a raster, the  *)
(* channels carried as floats between the stages.  Native 16- and 32-bit   *)
(* words are little-endian; the 16-bit integer channels are big-endian.    *)
(***************************************************************************)

\* x * n for a float x and a natural n < 2^16, rounded to float
FMulInt(x, n) ==
    IF x.m = 0 \/ n = 0 THEN FZero(x.s)
    ELSE Let((x.m \div 4096) * n + ((x.m % 4096) * n) \div 4096,
         LAMBDA H :
             Let(IF 29 - BitLen(H) > 12 THEN 12 ELSE 29 - BitLen(H),
                 LAMBDA j :
                     LET L == ((x.m % 4096) * n) % 4096
                     IN  FRound(x.s,
                                2 * (H * Pow2(j) + L \div Pow2(12 - j))
                                  + (IF L % Pow2(12 - j) = 0 THEN 0 ELSE 1),
                                x.e + 11 - j)))

\* Clamp to [0, 1]
FClamp01(x) ==
    IF x.m = 0 \/ x.s = 1 THEN FZero(0)
    ELSE IF FGt(x, F_1) THEN F_1
    ELSE x

\* The integer nearest to x, ties to even, for 0 <= x < 2^16
FRoundToInt(x) ==
    IF x.m = 0 THEN 0
    ELSE IF x.e >= 0 THEN x.m * Pow2(x.e)
    ELSE IF -x.e > 30 THEN 0
    ELSE LET d == Pow2(-x.e)
             q == x.m \div d
             r == x.m % d
         IN  IF 2 * r > d \/ (2 * r = d /\ q % 2 = 1) THEN q + 1 ELSE q

\* Infinity, carried as the magnitude 2^128
FInf(s) == [s |-> s, m |-> 8388608, e |-> 105]

\* An integer channel of b bits divided by 2^b
LoadChannel_PowerOfTwo(n, max) == FMulInt(FDiv(F_1, I32ToFloat(max + 1)), n)

\* An integer channel n of a format whose largest value is max: n * (1/max)
LoadChannel(n, max) == FMulInt(FDiv(F_1, I32ToFloat(max)), n)

\* c * max cut to an integer instead of rounded
StoreChannel_Truncate(c, max) ==
    Let(FMulInt(FClamp01(c), max),
        LAMBDA x : IF x.m = 0 THEN 0
                   ELSE IF x.e >= 0 THEN x.m * Pow2(x.e)
                   ELSE IF -x.e > 30 THEN 0
                   ELSE x.m \div Pow2(-x.e))

\* round(c * max) after the clamp of the store stage
StoreChannel(c, max) == FRoundToInt(FMulInt(FClamp01(c), max))

\* A 1-5-10 half as float: denormals are flushed to zero, a NaN becomes 0
HalfToFloat(h) ==
    LET s == h \div 32768
        E == (h \div 1024) % 32
        f == h % 1024
    IN  IF E = 0 THEN FZero(s)
        ELSE IF E = 31 THEN (IF f = 0 THEN FInf(s) ELSE FZero(0))
        ELSE [s |-> s, m |-> (1024 + f) * 8192, e |-> E - 38]

\* A float as 1-5-10 half: rounded to 11 bits, results below the smallest
\* normal half flushed to zero
FloatToHalf(x) ==
    IF x.m = 0 THEN x.s * 32768
    ELSE LET E  == x.e + 38
             q  == x.m \div 8192
             r  == x.m % 8192
             q1 == IF r > 4096 \/ (r = 4096 /\ q % 2 = 1) THEN q + 1 ELSE q
             E1 == IF q1 = 2048 THEN E + 1 ELSE E
             f1 == IF q1 = 2048 THEN 0 ELSE q1 - 1024
         IN  IF E1 >= 31 THEN x.s * 32768 + 31744
             ELSE IF E1 <= 0 THEN x.s * 32768
             ELSE x.s * 32768 + E1 * 1024 + f1

\* The float of the bit pattern <<high 16 bits, low 16 bits>>; a NaN becomes 0
BitsToFloat(w) ==
    LET s == w[1] \div 32768
        E == (w[1] \div 128) % 256
        f == (w[1] % 128) * Limb + w[2]
    IN  IF E = 255 THEN (IF f = 0 THEN FInf(s) ELSE FZero(0))
        ELSE IF E = 0 THEN FRound(s, f, -149)
        ELSE [s |-> s, m |-> 8388608 + f, e |-> E - 150]

\* The bit pattern of a float
FloatToBits(x) ==
    IF x.m = 0 THEN <<x.s * 32768, 0>>
    ELSE LET E == x.e + 150
         IN  IF E >= 255 THEN <<x.s * 32768 + 255 * 128, 0>>
             ELSE IF E <= 0
             THEN (IF 1 - E > 24 THEN <<x.s * 32768, 0>>
                   ELSE <<x.s * 32768 + (x.m \div Pow2(1 - E)) \div Limb,
                          (x.m \div Pow2(1 - E)) % Limb>>)
             ELSE <<x.s * 32768 + E * 128 + (x.m - 8388608) \div Limb,
                    (x.m - 8388608) % Limb>>

\* The pixel formats skcms.h declares
PixelFormats ==
    {"RGB_565", "BGR_565", "RGB_888", "BGR_888", "RGBA_8888", "BGRA_8888",
     "RGBA_1010102", "BGRA_1010102",
     "RGB_161616", "BGR_161616", "RGBA_16161616", "BGRA_16161616",
     "RGB_hhh", "BGR_hhh", "RGBA_hhhh", "BGRA_hhhh",
     "RGB_fff", "BGR_fff", "RGBA_ffff", "BGRA_ffff"}

\* The formats a raster is converted from: those of skcms.h and RGB_101010x,
\* the source format of one call, whose last two bits are no channel
SourceFormats == PixelFormats \cup {"RGB_101010x"}

\* The bit layout of a format, without the order of its channels
Layout(fmt) ==
    CASE fmt \in {"RGB_565", "BGR_565"}             -> "565"
      [] fmt \in {"RGB_888", "BGR_888"}             -> "888"
      [] fmt \in {"RGBA_8888", "BGRA_8888"}         -> "8888"
      [] fmt \in {"RGBA_1010102", "BGRA_1010102"}   -> "1010102"
      [] fmt = "RGB_101010x"                        -> "101010x"
      [] fmt \in {"RGB_161616", "BGR_161616"}       -> "161616"
      [] fmt \in {"RGBA_16161616", "BGRA_16161616"} -> "16161616"
      [] fmt \in {"RGB_hhh", "BGR_hhh"}             -> "hhh"
      [] fmt \in {"RGBA_hhhh", "BGRA_hhhh"}         -> "hhhh"
      [] fmt \in {"RGB_fff", "BGR_fff"}             -> "fff"
      [] fmt \in {"RGBA_ffff", "BGRA_ffff"}         -> "ffff"

\* Blue comes first
IsBGR(fmt) ==
    fmt \in {"BGR_565", "BGR_888", "BGRA_8888", "BGRA_1010102",
             "BGR_161616", "BGRA_16161616", "BGR_hhh", "BGRA_hhhh", "BGR_fff",
             "BGRA_ffff"}

\* Bytes per pixel
BytesPerPixel(fmt) ==
    CASE Layout(fmt) = "565"      -> 2
      [] Layout(fmt) = "888"      -> 3
      [] Layout(fmt) = "8888"     -> 4
      [] Layout(fmt) = "1010102"  -> 4
      [] Layout(fmt) = "101010x"  -> 4
      [] Layout(fmt) = "161616"   -> 6
      [] Layout(fmt) = "16161616" -> 8
      [] Layout(fmt) = "hhh"      -> 6
      [] Layout(fmt) = "hhhh"     -> 8
      [] Layout(fmt) = "fff"      -> 12
      [] Layout(fmt) = "ffff"     -> 16

\* The native 16-bit word, the big-endian 16-bit word, and the native float at
\* byte k (from 1) of the pixel p
Native16(p, k) == p[k] + 256 * p[k + 1]

Big16(p, k) == 256 * p[k] + p[k + 1]

NativeFloat(p, k) == BitsToFloat(<<Native16(p, k + 2), Native16(p, k)>>)

\* The three 10-bit fields and the 2-bit field of a native 32-bit word
Field10(p, i) ==
    CASE i = 0 -> p[1] + 256 * (p[2] % 4)
      [] i = 1 -> p[2] \div 4 + 64 * (p[3] % 16)
      [] i = 2 -> p[3] \div 16 + 16 * (p[4] % 64)

Field2(p) == p[4] \div 64

\* Channels in the order of the bytes: <<first, second, third, alpha>>
Channels(c0, c1, c2, a) == <<c0, c1, c2, a>>

\* The format has an alpha channel
HasAlpha(fmt) == Layout(fmt) \in {"8888", "1010102", "16161616", "hhhh", "ffff"}

\* Load: the four channels of the pixel p; the alpha of a format that has none
\* is set by the next stage
Load(fmt, p) ==
    CASE Layout(fmt) = "565" ->
           Channels(LoadChannel(Native16(p, 1) % 32, 31),
                    LoadChannel((Native16(p, 1) \div 32) % 64, 63),
                    LoadChannel(Native16(p, 1) \div 2048, 31), FZero(0))
      [] Layout(fmt) = "888" ->
           Channels(LoadChannel(p[1], 255), LoadChannel(p[2], 255),
                    LoadChannel(p[3], 255), FZero(0))
      [] Layout(fmt) = "8888" ->
           Channels(LoadChannel(p[1], 255), LoadChannel(p[2], 255),
                    LoadChannel(p[3], 255), LoadChannel(p[4], 255))
      [] Layout(fmt) = "1010102" ->
           Channels(LoadChannel(Field10(p, 0), 1023), LoadChannel(Field10(p, 1), 1023),
                    LoadChannel(Field10(p, 2), 1023), LoadChannel(Field2(p), 3))
      [] Layout(fmt) = "101010x" ->
           Channels(LoadChannel(Field10(p, 0), 1023), LoadChannel(Field10(p, 1), 1023),
                    LoadChannel(Field10(p, 2), 1023), FZero(0))
      [] Layout(fmt) = "161616" ->
           Channels(LoadChannel(Big16(p, 1), 65535), LoadChannel(Big16(p, 3), 65535),
                    LoadChannel(Big16(p, 5), 65535), FZero(0))
      [] Layout(fmt) = "16161616" ->
           Channels(LoadChannel(Big16(p, 1), 65535), LoadChannel(Big16(p, 3), 65535),
                    LoadChannel(Big16(p, 5), 65535), LoadChannel(Big16(p, 7), 65535))
      [] Layout(fmt) = "hhh" ->
           Channels(HalfToFloat(Native16(p, 1)), HalfToFloat(Native16(p, 3)),
                    HalfToFloat(Native16(p, 5)), FZero(0))
      [] Layout(fmt) = "hhhh" ->
           Channels(HalfToFloat(Native16(p, 1)), HalfToFloat(Native16(p, 3)),
                    HalfToFloat(Native16(p, 5)), HalfToFloat(Native16(p, 7)))
      [] Layout(fmt) = "fff" ->
           Channels(NativeFloat(p, 1), NativeFloat(p, 5), NativeFloat(p, 9), FZero(0))
      [] Layout(fmt) = "ffff" ->
           Channels(NativeFloat(p, 1), NativeFloat(p, 5), NativeFloat(p, 9),
                    NativeFloat(p, 13))

\* Force opaque without effect
ForceOpaque_Keep(c) == c

\* Force opaque: a := 1
ForceOpaque(c) == <<c[1], c[2], c[3], F_1>>

\* Swap RB: channels 0 and 2 exchanged
SwapRB(c) == <<c[3], c[2], c[1], c[4]>>

\* The bytes of a native 16-bit word, a big-endian one, and a native float
PutNative16(w) == <<w % 256, w \div 256>>

PutBig16(w) == <<w \div 256, w % 256>>

PutNativeFloat(x) ==
    Let(FloatToBits(x), LAMBDA w : PutNative16(w[2]) \o PutNative16(w[1]))

\* The native 32-bit word of three 10-bit fields and a 2-bit field
Put1010102(r, g, b, a) ==
    <<r % 256,
      r \div 256 + 4 * (g % 64),
      g \div 64 + 16 * (b % 16),
      b \div 16 + 64 * a>>

\* Store: the bytes of a pixel of the channels c
Store(fmt, c) ==
    CASE Layout(fmt) = "565" ->
           PutNative16(StoreChannel(c[1], 31) + 32 * StoreChannel(c[2], 63)
                         + 2048 * StoreChannel(c[3], 31))
      [] Layout(fmt) = "888" ->
           <<StoreChannel(c[1], 255), StoreChannel(c[2], 255), StoreChannel(c[3], 255)>>
      [] Layout(fmt) = "8888" ->
           <<StoreChannel(c[1], 255), StoreChannel(c[2], 255), StoreChannel(c[3], 255),
             StoreChannel(c[4], 255)>>
      [] Layout(fmt) = "1010102" ->
           Put1010102(StoreChannel(c[1], 1023), StoreChannel(c[2], 1023),
                      StoreChannel(c[3], 1023), StoreChannel(c[4], 3))
      [] Layout(fmt) = "161616" ->
           PutBig16(StoreChannel(c[1], 65535)) \o PutBig16(StoreChannel(c[2], 65535))
             \o PutBig16(StoreChannel(c[3], 65535))
      [] Layout(fmt) = "16161616" ->
           PutBig16(StoreChannel(c[1], 65535)) \o PutBig16(StoreChannel(c[2], 65535))
             \o PutBig16(StoreChannel(c[3], 65535)) \o PutBig16(StoreChannel(c[4], 65535))
      [] Layout(fmt) = "hhh" ->
           PutNative16(FloatToHalf(c[1])) \o PutNative16(FloatToHalf(c[2]))
             \o PutNative16(FloatToHalf(c[3]))
      [] Layout(fmt) = "hhhh" ->
           PutNative16(FloatToHalf(c[1])) \o PutNative16(FloatToHalf(c[2]))
             \o PutNative16(FloatToHalf(c[3])) \o PutNative16(FloatToHalf(c[4]))
      [] Layout(fmt) = "fff" ->
           PutNativeFloat(c[1]) \o PutNativeFloat(c[2]) \o PutNativeFloat(c[3])
      [] Layout(fmt) = "ffff" ->
           PutNativeFloat(c[1]) \o PutNativeFloat(c[2]) \o PutNativeFloat(c[3])
             \o PutNativeFloat(c[4])

\* The pipeline swapping for a BGR source only
ConvertPixel_SwapForSource(srcFmt, dstFmt, p) ==
    Let(IF HasAlpha(srcFmt) THEN Load(srcFmt, p) ELSE ForceOpaque(Load(srcFmt, p)),
        LAMBDA c : Store(dstFmt, IF IsBGR(srcFmt) THEN SwapRB(c) ELSE c))

\* The pipeline of a pure format conversion, run on one pixel: Load, Force
\* opaque for a source without alpha, Swap RB when the orders differ, Store
ConvertPixel(srcFmt, dstFmt, p) ==
    Let(IF HasAlpha(srcFmt) THEN Load(srcFmt, p) ELSE ForceOpaque(Load(srcFmt, p)),
        LAMBDA c : Store(dstFmt, IF IsBGR(srcFmt) # IsBGR(dstFmt) THEN SwapRB(c) ELSE c))

\* The memory m with the bytes b written at offset d
WriteBytes(m, d, b) ==
    [k \in 1..Len(m) |-> IF d < k /\ k <= d + Len(b) THEN b[k - d] ELSE m[k]]

\* The executor: pixels i .. n-1 in ascending order, each read from the
\* memory as the earlier pixels left it
RECURSIVE RunPipeline(_, _, _, _, _, _, _)
RunPipeline(m, src, srcFmt, dst, dstFmt, i, n) ==
    IF i >= n THEN m
    ELSE RunPipeline(
             WriteBytes(m, dst + i * BytesPerPixel(dstFmt),
                        ConvertPixel(srcFmt, dstFmt,
                                     SubSeq(m, src + i * BytesPerPixel(srcFmt) + 1,
                                            src + (i + 1) * BytesPerPixel(srcFmt)))),
             src, srcFmt, dst, dstFmt, i + 1, n)

\* skcms_Transform without the refusal of in-place calls
skcms_Transform_NoAliasCheck(m, dst, dstFmt, dstProfile, src, srcFmt, srcProfile, n) ==
    IF dstProfile # srcProfile THEN [ret |-> FALSE, mem |-> m]
    ELSE [ret |-> TRUE, mem |-> RunPipeline(m, src, srcFmt, dst, dstFmt, 0, n)]

\* bool skcms_Transform(dst, dstFmt, dstProfile, src, srcFmt, srcProfile, n)
\* on the memory m; src and dst are offsets into m
skcms_Transform(m, dst, dstFmt, dstProfile, src, srcFmt, srcProfile, n) ==
    IF dst = src /\ BytesPerPixel(dstFmt) # BytesPerPixel(srcFmt)
    THEN [ret |-> FALSE, mem |-> m]
    ELSE IF dstProfile # srcProfile THEN [ret |-> FALSE, mem |-> m]
    ELSE [ret |-> TRUE, mem |-> RunPipeline(m, src, srcFmt, dst, dstFmt, 0, n)]

(***************************************************************************)
(* skcms_ApproximateTransferFunction                                       *)
(*                                                                         *)
(* The heap is the working buffer of the call: the calls of malloc, the    *)
(* blocks it gave, the blocks freed, whether a block is live, the bytes    *)
(* asked for, the floats written to the block and the writes made through  *)
(* a null pointer.                                                         *)
(***************************************************************************)

INT_MAX == 2147483647

\* The heap before any call
NoHeap == [malloc_calls |-> 0, blocks |-> 0, frees |-> 0, live |-> FALSE, size |-> 0,
           data |-> <<>>, null_writes |-> 0]

\* A skcms_TransferFunction the caller declared
SomeFn == [null |-> FALSE]

\* (size_t)x on a target whose size_t is 64 bits wide
SizeT(x) == x

\* *x++ = i / (curves[c].table_size - 1.0f), for i < table_size
MergedX(c) ==
    [k \in 1..U32ToInt(c.table_size) |->
        FDiv(I32ToFloat(k - 1), FSub(I32ToFloat(U32ToInt(c.table_size)), F_1))]

\* *t++ = read_big_u16(curves[c].table + 2 * i) * (1 / 65535.0f)
MergedT(mem, c) ==
    [k \in 1..U32ToInt(c.table_size) |->
        FMulInt(FDiv(F_1, I32ToFloat(65535)), read_big_u16(mem, c.table + 2 * (k - 1)))]

\* The three lookups and the three read_curve calls, each || cut short: the
\* curves when all three tags are found and decode to tables, <<>> otherwise.
RECURSIVE TabulatedCurves(_, _, _)
TabulatedCurves(mem, profile, sigs) ==
    IF sigs = <<>> THEN <<>>
    ELSE Let(skcms_GetTagBySignature(mem, profile, Head(sigs), NoTag),
         LAMBDA t :
             IF ~t.ret THEN <<>>
             ELSE Let(read_curve(mem, t.tag.buf, t.tag.size, ZeroCurve),
                  LAMBDA r :
                      IF ~r.ret \/ r.curve.table = NULL THEN <<>>
                      ELSE <<r.curve>> \o TabulatedCurves(mem, profile, Tail(sigs))))

\* From malloc to the return, with the block malloc returned (allocated) or
\* NULL.  The loop writes 2 * n floats through data without testing it: with
\* data == NULL the behaviour is undefined, and `wild` is what the build makes
\* of it, a fault at the first write or a run that goes on to the fit and to
\* free(NULL).  `fit` is what skcms_TransferFunction_approximate returns.
ApproximateOnBlock(mem, curves, n, heap, allocated, fit, wild) ==
    IF allocated
    THEN [ret |-> fit, fault |-> FALSE,
          heap |-> [heap EXCEPT !.malloc_calls = @ + 1, !.blocks = @ + 1,
                                !.frees = @ + 1, !.live = FALSE,
                                !.size = 8 * n,
                                !.data = MergedX(curves[1]) \o MergedX(curves[2])
                                           \o MergedX(curves[3])
                                           \o MergedT(mem, curves[1])
                                           \o MergedT(mem, curves[2])
                                           \o MergedT(mem, curves[3])]]
    ELSE [ret |-> fit, fault |-> wild = "fault",
          heap |-> [heap EXCEPT !.malloc_calls = @ + 1, !.size = 8 * n,
                                !.null_writes = IF wild = "fault" THEN 1 ELSE 2 * n]]

\* bool skcms_ApproximateTransferFunction(profile, fn, max_error)
skcms_ApproximateTransferFunction(mem, profile, fn, heap, allocated, fit, wild) ==
    IF IsNull(profile) \/ IsNull(fn) THEN [ret |-> FALSE, fault |-> FALSE, heap |-> heap]
    ELSE Let(TabulatedCurves(mem, profile, <<Sig_rTRC, Sig_gTRC, Sig_bTRC>>),
         LAMBDA curves :
             IF Len(curves) < 3 THEN [ret |-> FALSE, fault |-> FALSE, heap |-> heap]
             ELSE Let(U64Add(U64Add(U64FromU32(curves[1].table_size),
                                    U64FromU32(curves[2].table_size)),
                             U64FromU32(curves[3].table_size)),
                  LAMBDA n :
                      IF U64Lt(U64FromInt(INT_MAX), n)
                      THEN [ret |-> FALSE, fault |-> FALSE, heap |-> heap]
                      ELSE IF U64MulSmall(n, 8) # SizeT(U64MulSmall(n, 8))
                      THEN [ret |-> FALSE, fault |-> FALSE, heap |-> heap]
                      ELSE ApproximateOnBlock(mem, curves, U64ToInt(n),
                                              heap, allocated, fit, wild)))

(***************************************************************************)
(* Input buffers                                                           *)
(*                                                                         *)
(* The buffers handed to skcms_Parse are laid out as ICC profiles: the     *)
(* header, the tag table, then the tags' data one after the other.  Every  *)
(* family below varies some fields of a well-formed profile.               *)
(***************************************************************************)

\* The largest sample count of the 'curv' tags of the inputs
MaxSamples == 3

\* The largest function type of the 'para' tags of the inputs
MaxFunctionType == 5

Zeros(n) == [i \in 1..n |-> 0]

\* The four bytes of a big-endian 32-bit word <<hi, lo>>
B32(w) == <<w[1] \div 256, w[1] % 256, w[2] \div 256, w[2] % 256>>

B16(n) == <<n \div 256, n % 256>>

RECURSIVE Flatten(_)
Flatten(ss) == IF ss = <<>> THEN <<>> ELSE Head(ss) \o Flatten(Tail(ss))

\* s15.16 words used by the inputs
Fx_1      == <<1, 0>>
Fx_0      == <<0, 0>>
Fx_2_2    == <<2, 13107>>
Fx_1_8    == <<1, 52429>>
Fx_half   == <<0, 32768>>
Fx_mhalf  == <<65535, 32768>>
Fx_m1     == <<65535, 0>>
Fx_big    == <<32767, 65535>>
Fx_D50_X  == <<0, 63190>>
Fx_D50_Y  == <<1, 0>>
Fx_D50_Z  == <<0, 54061>>

\* A header: h gives the size, signature, version, illuminant and tag-count words.
HeaderBytes(h) ==
    B32(h.size) \o Zeros(4) \o B32(h.version) \o Zeros(4)
      \o <<82, 71, 66, 32>> \o <<88, 89, 90, 32>> \o Zeros(12)
      \o B32(h.signature) \o Zeros(28)
      \o B32(h.illX) \o B32(h.illY) \o B32(h.illZ)
      \o Zeros(48) \o B32(h.tag_count)

\* A tag of the inputs: the signature, the data, and the size and offset words
\* of its tag-table entry (the offset of its data unless fixoff is set).
Tag(sig, blob) == [sig |-> sig, blob |-> blob, size |-> U32FromInt(Len(blob)),
                   fixoff |-> FALSE, off |-> U32(0, 0)]

TagSized(sig, blob, size) == [Tag(sig, blob) EXCEPT !.size = size]

RECURSIVE DataLen(_, _)
DataLen(tags, n) == IF n = 0 THEN 0 ELSE DataLen(tags, n - 1) + Len(tags[n].blob)

TagOffset(tags, i) ==
    IF tags[i].fixoff THEN tags[i].off
    ELSE U32FromInt(header_Layout_size + tag_Layout_size * Len(tags) + DataLen(tags, i - 1))

TableBytes(tags) ==
    Flatten([i \in 1..Len(tags) |->
               B32(tags[i].sig) \o B32(TagOffset(tags, i)) \o B32(tags[i].size)])

DataBytes(tags) == Flatten([i \in 1..Len(tags) |-> tags[i].blob])

ProfileLen(tags) == header_Layout_size + tag_Layout_size * Len(tags) + DataLen(tags, Len(tags))

\* The header of a well-formed version-4 profile holding tags
GoodHeader(tags) ==
    [size |-> U32FromInt(ProfileLen(tags)), signature |-> Sig_acsp,
     version |-> <<1024, 0>>,
     illX |-> Fx_D50_X, illY |-> Fx_D50_Y, illZ |-> Fx_D50_Z,
     tag_count |-> U32FromInt(Len(tags))]

ProfileBytes(h, tags) == HeaderBytes(h) \o TableBytes(tags) \o DataBytes(tags)

\* Tag data
ParaBlob(function_type, params) ==
    B32(Sig_para) \o Zeros(4) \o B16(function_type) \o Zeros(2)
      \o Flatten([i \in 1..Len(params) |-> B32(params[i])])

CurvBlob(value_count, samples) ==
    B32(Sig_curv) \o Zeros(4) \o B32(value_count)
      \o Flatten([i \in 1..Len(samples) |-> B16(samples[i])])

XYZBlob(v) == B32(Sig_XYZ) \o Zeros(4) \o B32(v[1]) \o B32(v[2]) \o B32(v[3])

\* An 'mft1' or 'mft2' tag: channels, grid points, table sizes (mft2 only) and
\* n bytes of tables.
MftBlob(type, ic, oc, gp, sizes, n) ==
    B32(type) \o Zeros(4) \o <<ic, oc, gp, 0>>
      \o Flatten([i \in 1..9 |-> B32(IF i \in {1, 5, 9} THEN Fx_1 ELSE Fx_0)])
      \o sizes \o [i \in 1..n |-> (7 * i) % 256]

\* Curves: a pure gamma 2.2, its 'curv' forms, tables, and an unknown type
Para_G22  == ParaBlob(kG, <<Fx_2_2>>)
Para_G1   == ParaBlob(kG, <<Fx_1>>)
Para_GAB  == ParaBlob(kGAB, <<Fx_2_2, Fx_1, Fx_mhalf>>)
Para_GABCD == ParaBlob(kGABCD, <<Fx_2_2, Fx_1, Fx_mhalf, Fx_0, Fx_half>>)
Curv_0    == CurvBlob(<<0, 0>>, <<>>)
Curv_1    == CurvBlob(<<0, 1>>, <<256>>)
Curv_Table(n) == CurvBlob(<<0, n>>, [i \in 1..n |-> ((i - 1) * 65535) \div (n - 1)])
Bad_Type  == B32(Sig_XYZ) \o Zeros(12)

Sig_desc == make_signature(100, 101, 115, 99)

XYZ_r == XYZBlob(<<<<0, 28577>>, <<0, 14580>>, <<0, 912>>>>)
XYZ_g == XYZBlob(<<<<0, 25240>>, <<0, 46981>>, <<0, 6363>>>>)
XYZ_b == XYZBlob(<<<<0, 9373>>, <<0, 3975>>, <<0, 46786>>>>)

XYZTags == <<Tag(Sig_rXYZ, XYZ_r), Tag(Sig_gXYZ, XYZ_g), Tag(Sig_bXYZ, XYZ_b)>>

TRCTags(r, g, b) == <<Tag(Sig_rTRC, r), Tag(Sig_gTRC, g), Tag(Sig_bTRC, b)>>

BaseTags == TRCTags(Para_G22, Para_G22, Para_G22) \o XYZTags

\* A caller's profile object holding the result of an earlier, successful parse
DirtyProfile ==
    [ZeroProfile EXCEPT !.buffer = 0, !.size = U32(0, 1000), !.tag_count = U32(0, 3),
                        !.has_tf = TRUE, !.tf = TF7(F_1),
                        !.has_toXYZD50 = TRUE, !.has_A2B = TRUE]

Input(bytes, prev) == [mem |-> bytes, prev |-> prev]

\* Header family: the declared size, the tag count and the buffer length vary.
SizeWords ==
    {<<0, 0>>, <<0, 131>>, <<0, 132>>, <<0, 203>>, <<0, 204>>,
     U32FromInt(ProfileLen(BaseTags) - 1), U32FromInt(ProfileLen(BaseTags)),
     U32FromInt(ProfileLen(BaseTags) + 1), <<32768, 0>>, <<65535, 65535>>}

TagCountWords ==
    {<<0, 0>>, <<0, 6>>, <<0, 7>>, <<0, 15>>, <<0, 16>>,
     <<5461, 21846>>, <<32768, 0>>, <<65535, 65535>>}

BufferLens == {0, 1, 131, 132, 204, ProfileLen(BaseTags) - 1, ProfileLen(BaseTags)}

SizeInputs ==
    {Input(SubSeq(ProfileBytes([GoodHeader(BaseTags) EXCEPT !.size = sz, !.tag_count = tc],
                               BaseTags), 1, n), DirtyProfile) :
       sz \in SizeWords, tc \in TagCountWords, n \in BufferLens}

\* Signature and version family
SignatureWords == {Sig_acsp, make_signature(97, 99, 115, 113), <<0, 0>>}

VersionWords == {<<0, 0>>, <<528, 0>>, <<1072, 0>>, <<1279, 65535>>, <<1280, 0>>, <<65280, 0>>}

SignatureInputs ==
    {Input(ProfileBytes([GoodHeader(BaseTags) EXCEPT !.signature = sg, !.version = v],
                        BaseTags), prev) :
       sg \in SignatureWords, v \in VersionWords, prev \in {ZeroProfile, DirtyProfile}}

\* Illuminant family: each field near the edges of D50 +- 0.01, and far away
IllumX == {<<0, 62534>>, <<0, 62535>>, <<0, 63190>>, <<0, 63845>>, <<0, 63846>>,
           <<0, 0>>, <<65535, 2346>>, <<32768, 0>>, <<32767, 65535>>}
IllumY == {<<0, 64880>>, <<0, 64881>>, <<1, 0>>, <<1, 655>>, <<1, 656>>, <<65535, 0>>}
IllumZ == {<<0, 53405>>, <<0, 53406>>, <<0, 54061>>, <<0, 54716>>, <<0, 54717>>}

IlluminantInputs ==
    {Input(ProfileBytes([GoodHeader(BaseTags) EXCEPT !.illX = ix, !.illY = iy, !.illZ = iz],
                        BaseTags), DirtyProfile) :
       ix \in IllumX, iy \in IllumY, iz \in IllumZ}

\* Tag-table family: the offset and size words of an entry vary.  The entry is
\* a 'desc' tag, the first or the last of the table.
EntryTags(first, e) ==
    LET desc == [Tag(Sig_desc, Zeros(8)) EXCEPT !.size = e.size, !.fixoff = e.fixoff,
                                                !.off = e.off]
    IN  IF first THEN <<desc>> \o BaseTags \o <<Tag(Sig_desc, Zeros(4))>>
        ELSE <<Tag(Sig_desc, Zeros(4))>> \o BaseTags \o <<desc>>

EntryLen == ProfileLen(EntryTags(TRUE, Tag(Sig_desc, Zeros(8))))

EntrySizes == {<<0, 0>>, <<0, 3>>, <<0, 4>>, <<0, 8>>, <<0, 9>>, U32FromInt(EntryLen),
               <<1, 0>>, <<32768, 0>>, <<65535, 65535>>}

EntryOffsets == {<<0, 0>>, <<0, 1>>, U32FromInt(EntryLen - 8), U32FromInt(EntryLen - 4),
                 U32FromInt(EntryLen - 3), U32FromInt(EntryLen),
                 <<32768, 0>>, <<65535, 65528>>, <<65535, 65532>>, <<65535, 65535>>}

EntryInputs ==
    {Input(Let(EntryTags(first, [size |-> sz, fixoff |-> TRUE, off |-> off]),
               LAMBDA tags : ProfileBytes(GoodHeader(tags), tags)), DirtyProfile) :
       first \in BOOLEAN, sz \in EntrySizes, off \in EntryOffsets}

\* Curve family: each of rTRC, gTRC and bTRC is absent or one of the curves.
CurveBlobs ==
    {Para_G22, Para_G1, Para_GAB, Para_GABCD, Curv_0, Curv_1, Bad_Type}
      \cup {Curv_Table(n) : n \in 2..MaxSamples}

CurveChoices == {<<>>} \cup {<<blob>> : blob \in CurveBlobs}

ChosenTags(sig, choice) == IF choice = <<>> THEN <<>> ELSE <<Tag(sig, choice[1])>>

CurveInputs ==
    {Input(Let(ChosenTags(Sig_rTRC, r) \o ChosenTags(Sig_gTRC, g)
                 \o ChosenTags(Sig_bTRC, b) \o XYZTags,
               LAMBDA tags : ProfileBytes(GoodHeader(tags), tags)), DirtyProfile) :
       r \in CurveChoices, g \in CurveChoices, b \in CurveChoices}

\* 'para' family: rTRC is a 'para' tag of every function type, with and without
\* a == 0, and of every size around the size its type needs.
ParaParams ==
    {<<Fx_2_2, Fx_1, Fx_mhalf, <<0, 16384>>, Fx_half, <<0, 8192>>, <<0, 4096>>>>,
     <<Fx_1_8, Fx_0, Fx_half, <<0, 16384>>, Fx_half, <<0, 8192>>, <<0, 4096>>>>,
     <<Fx_2_2, <<3, 0>>, Fx_1, Fx_m1, Fx_big, <<32768, 0>>, <<65535, 65535>>>>,
     <<Fx_1, <<65534, 32768>>, Fx_0, <<0, 1>>, <<0, 2>>, <<0, 3>>, <<0, 4>>>>}

ParaSizes(t) ==
    IF t > kGABCDEF THEN {40}
    ELSE {11, para_Layout_size + curve_bytes(t) - 1, para_Layout_size + curve_bytes(t), 40}

ParaInputs ==
    {Input(Let(<<TagSized(Sig_rTRC, ParaBlob(in[1], in[2]), U32FromInt(in[3])),
                 Tag(Sig_gTRC, Para_G22), Tag(Sig_bTRC, Para_G22)>> \o XYZTags,
               LAMBDA tags : ProfileBytes(GoodHeader(tags), tags)), DirtyProfile) :
       in \in {<<t, ps, sz>> \in (0..MaxFunctionType) \X ParaParams \X {11, 15, 16, 23, 24, 27,
                                    28, 31, 32, 39, 40} : sz \in ParaSizes(t)}}

\* 'curv' family: rTRC is a 'curv' tag holding MaxSamples + 1 samples, of every
\* value count up to that and of counts near 2^31 and 2^32, and of every size
\* around the size its count needs.
CurvCounts ==
    {<<0, n>> : n \in 0..(MaxSamples + 1)}
      \cup {<<32767, 65535>>, <<32768, 0>>, <<32768, 1>>, <<65535, 65535>>}

CurvSamples == {<<0, 32768, 65535>>, <<563, 256, 1>>}

CurvSizes(vc) ==
    {11, curv_Layout_size, curv_Layout_size + 2 * (MaxSamples + 1)}
      \cup (IF vc[1] = 0 /\ vc[2] >= 1
            THEN {curv_Layout_size + 2 * vc[2] - 1, curv_Layout_size + 2 * vc[2]}
            ELSE {})

CurvInputs ==
    {Input(Let(<<TagSized(Sig_rTRC,
                          CurvBlob(in[1], [i \in 1..(MaxSamples + 1) |->
                                             in[2][1 + ((i - 1) % 3)]]),
                          U32FromInt(in[3])),
                 Tag(Sig_gTRC, Para_G22), Tag(Sig_bTRC, Para_G22)>> \o XYZTags,
               LAMBDA tags : ProfileBytes(GoodHeader(tags), tags)), DirtyProfile) :
       in \in {<<vc, sm, sz>> \in CurvCounts \X CurvSamples
                                    \X (11..(curv_Layout_size + 2 * (MaxSamples + 1))) :
                 sz \in CurvSizes(vc)}}

\* A2B0 family: a well-formed profile with an A2B0 tag.
A2BBlobs ==
    {MftBlob(Sig_mft2, 1, 3, 2, B16(2) \o B16(2), 28),
     MftBlob(Sig_mft2, 1, 3, 2, B16(2) \o B16(2), 27),
     MftBlob(Sig_mft2, 2, 3, 2, B16(2) \o B16(3), 50),
     MftBlob(Sig_mft2, 1, 4, 2, B16(2) \o B16(2), 28),
     MftBlob(Sig_mft2, 5, 3, 2, B16(2) \o B16(2), 28),
     MftBlob(Sig_mft2, 1, 3, 1, B16(2) \o B16(2), 28),
     MftBlob(Sig_mft2, 1, 3, 2, B16(1) \o B16(2), 28),
     MftBlob(Sig_mft1, 1, 3, 2, <<>>, 1030),
     MftBlob(Sig_mft1, 1, 3, 2, <<>>, 1029),
     MftBlob(make_signature(109, 65, 66, 32), 1, 3, 2, <<>>, 28)}

A2BInputs ==
    {Input(Let(BaseTags \o <<Tag(Sig_A2B0, blob)>>,
               LAMBDA tags : ProfileBytes(GoodHeader(tags), tags)), DirtyProfile) :
       blob \in A2BBlobs}

\* Table family: the A2B0 tag is an 'mft1' or 'mft2' tag whose channel counts,
\* grid points and table sizes vary, holding as many bytes of tables as its
\* fields ask for, one byte less, or (where that is too much for a buffer) 64.
MftShapes ==
    {<<ic, 3, 2>> : ic \in 0..5} \cup {<<1, oc, 2>> : oc \in {0, 2, 4}}
      \cup {<<1, 3, gp>> : gp \in {0, 1, 3, 255}}
      \cup {<<2, 3, 3>>, <<3, 3, 255>>, <<4, 3, 255>>}

MftTableSizes == {0, 1, 2, 3, 4096, 4097}

RECURSIVE IntPow(_, _)
IntPow(b, n) == IF n = 0 THEN 1 ELSE b * IntPow(b, n - 1)

\* The bytes of tables the fields ask for
MftTableBytes(shape, its, ots, width) ==
    IF shape[1] > 2 /\ shape[3] > 3 THEN 65
    ELSE shape[1] * its * width + 3 * width * IntPow(shape[3], shape[1]) + 3 * ots * width

Mft1Inputs ==
    {Input(Let(BaseTags \o <<Tag(Sig_A2B0,
                                 MftBlob(Sig_mft1, in[1][1], in[1][2], in[1][3], <<>>,
                                         MftTableBytes(in[1], 256, 256, 1) - in[2]))>>,
               LAMBDA tags : ProfileBytes(GoodHeader(tags), tags)), DirtyProfile) :
       in \in MftShapes \X {0, 1}}

Mft2Sizes ==
    {<<sh, 2, 2>> : sh \in MftShapes}
      \cup {<<<<1, 3, 2>>, its, 2>> : its \in MftTableSizes}
      \cup {<<<<1, 3, 2>>, 2, ots>> : ots \in MftTableSizes}
      \cup {<<<<2, 3, 3>>, 3, 4096>>}

Mft2Inputs ==
    {Input(Let(BaseTags \o <<Tag(Sig_A2B0,
                                 MftBlob(Sig_mft2, in[1][1][1], in[1][1][2], in[1][1][3],
                                         B16(in[1][2]) \o B16(in[1][3]),
                                         MftTableBytes(in[1][1], in[1][2], in[1][3], 2)
                                           + 1 - in[2]))>>,
               LAMBDA tags : ProfileBytes(GoodHeader(tags), tags)), DirtyProfile) :
       in \in Mft2Sizes \X {0, 1, 2}}

\* Tags cut inside or right after the fixed part of their layout
MftShortInputs ==
    {Input(Let(BaseTags \o <<TagSized(Sig_A2B0,
                                      MftBlob(in[1], 1, 3, 2, B16(2) \o B16(2), 28),
                                      U32FromInt(in[2]))>>,
               LAMBDA tags : ProfileBytes(GoodHeader(tags), tags)), DirtyProfile) :
       in \in {Sig_mft1, Sig_mft2} \X {4, 47, 48, 51, 52}}

MftInputs == Mft1Inputs \cup Mft2Inputs \cup MftShortInputs

\* XYZ family: rXYZ, gXYZ and bXYZ are absent, well formed, of another type, or
\* one byte short; rTRC is a gamma or of an unknown type.
XYZChoices(sig, blob) ==
    {<<>>, <<Tag(sig, blob)>>, <<Tag(sig, Para_GABCD)>>,
     <<TagSized(sig, blob, U32FromInt(XYZ_Layout_size - 1))>>}

XYZInputs ==
    {Input(Let(TRCTags(trc, Para_G22, Para_G22) \o r \o g \o b,
               LAMBDA tags : ProfileBytes(GoodHeader(tags), tags)), DirtyProfile) :
       trc \in {Para_G22, Bad_Type},
       r \in XYZChoices(Sig_rXYZ, XYZ_r), g \in XYZChoices(Sig_gXYZ, XYZ_g),
       b \in XYZChoices(Sig_bXYZ, XYZ_b)}

\* Duplicate family: two tags of one signature, the second of another kind.
DuplicateInputs ==
    {Input(Let(<<Tag(Sig_desc, Zeros(8)), Tag(Sig_rTRC, Para_G22), Tag(Sig_rTRC, Curv_1),
                 Tag(Sig_gTRC, Para_G22), Tag(Sig_bTRC, Para_G22)>> \o XYZTags
                 \o <<Tag(Sig_desc, Zeros(4))>>,
               LAMBDA tags : ProfileBytes(GoodHeader(tags), tags)), DirtyProfile)}

\* A null profile pointer
NullInputs == {Input(ProfileBytes(GoodHeader(BaseTags), BaseTags), NullPtr)}

Inputs ==
    SizeInputs \cup SignatureInputs \cup IlluminantInputs \cup EntryInputs
      \cup CurveInputs \cup ParaInputs \cup CurvInputs \cup A2BInputs
      \cup MftInputs \cup XYZInputs \cup DuplicateInputs \cup NullInputs

(***************************************************************************)
(* Rasters                                                                 *)
(***************************************************************************)

\* The largest number of pixels of a raster
MaxPixels == 2

\* The bytes a raster of MaxPixels pixels of the widest format takes
RasterLen == MaxPixels * 16

\* The pixels the rasters are made of, per layout
PixelChoices(layout) ==
    CASE layout = "565"      -> {<<138, 82>>, <<223, 255>>, <<145, 170>>}
      [] layout = "888"      -> {<<0, 1, 2>>, <<255, 128, 1>>, <<3, 200, 77>>}
      [] layout = "8888"     -> {<<0, 1, 2, 3>>, <<255, 128, 1, 0>>, <<4, 250, 6, 255>>}
      [] layout = "1010102"  -> {<<255, 255, 71, 64>>, <<0, 0, 0, 0>>, <<17, 84, 144, 193>>}
         \* 1023 | 511 << 10 | 4 << 20 with the last two bits 1, 0, 3 and 2
      [] layout = "101010x"  -> {<<255, 255, 71, 64>>, <<255, 255, 71, 0>>,
                                 <<17, 84, 144, 193>>, <<17, 84, 144, 129>>}
      [] layout = "161616"   -> {<<0, 3, 126, 252, 126, 253>>, <<1, 1, 255, 255, 128, 0>>,
                                 <<126, 254, 126, 255, 255, 252>>}
      [] layout = "16161616" -> {<<126, 252, 126, 253, 126, 254, 126, 255>>,
                                 <<0, 0, 0, 1, 0, 2, 0, 3>>,
                                 <<255, 255, 1, 1, 128, 0, 255, 254>>}
         \* halfs 1.0, 0.5, 0x1805 | 0x1804, 2.0, a denormal | a negative
         \* denormal, -1.0, a NaN | 2.0, -1.0, -0 | +inf, -inf, 65504
      [] layout = "hhh"      -> {<<0, 60, 0, 56, 5, 24>>, <<4, 24, 0, 64, 255, 3>>,
                                 <<255, 131, 0, 188, 0, 126>>,
                                 <<0, 64, 0, 188, 0, 128>>,
                                 <<0, 124, 0, 252, 255, 123>>}
         \* halfs 1.0, 0.5, 0x1805, 0x1804 | 2.0, two denormals, -1.0 |
         \* 1.0, 0, 0.5, 1.0 | 2.0, -1.0, -0, +inf | -inf, 65504, a NaN, 0.5
      [] layout = "hhhh"     -> {<<0, 60, 0, 56, 5, 24, 4, 24>>,
                                 <<0, 64, 255, 3, 255, 131, 0, 188>>,
                                 <<0, 60, 0, 0, 0, 56, 0, 60>>,
                                 <<0, 64, 0, 188, 0, 128, 0, 124>>,
                                 <<0, 252, 255, 123, 1, 126, 0, 56>>}
         \* floats 1.0, 0.5, 1/255 | 1/512, 2.0, -1.0 | a NaN, a denormal, 0 |
         \* a denormal, +inf, -0 | -inf, the largest denormal, the largest float
      [] layout = "fff"      -> {<<0, 0, 128, 63, 0, 0, 0, 63, 129, 128, 128, 59>>,
                                 <<0, 0, 0, 59, 0, 0, 0, 64, 0, 0, 128, 191>>,
                                 <<0, 0, 192, 127, 1, 0, 0, 0, 0, 0, 0, 0>>,
                                 <<1, 0, 0, 0, 0, 0, 128, 127, 0, 0, 0, 128>>,
                                 <<0, 0, 128, 255, 255, 255, 127, 0, 255, 255, 127, 127>>}
      [] layout = "ffff"     -> {<<0, 0, 128, 63, 0, 0, 0, 63, 129, 128, 128, 59, 0, 0, 0, 59>>,
                                 <<0, 0, 0, 64, 0, 0, 128, 191, 0, 0, 0, 0, 0, 0, 128, 63>>,
                                 <<0, 0, 192, 127, 1, 0, 0, 0, 0, 0, 128, 127, 0, 0, 128, 63>>,
                                 <<1, 0, 0, 0, 0, 0, 128, 127, 0, 0, 0, 128, 0, 0, 0, 64>>,
                                 <<0, 0, 128, 255, 255, 255, 127, 0, 255, 255, 127, 127,
                                   0, 0, 128, 191>>}

\* The rasters of n pixels of a layout
RECURSIVE Rasters(_, _)
Rasters(layout, n) ==
    IF n = 0 THEN {<<>>}
    ELSE {r \o p : r \in Rasters(layout, n - 1), p \in PixelChoices(layout)}

\* A byte no conversion of the rasters above writes next to its neighbours
Untouched == 170

\* The caller's memory: the source raster at offset 0 and a destination
\* buffer at offset RasterLen, both RasterLen bytes long
Memory(raster) ==
    raster \o [k \in 1..(2 * RasterLen - Len(raster)) |-> Untouched]

\* The profile pointers of a call without colour conversion, and of one with
SameProfile == 1

OtherProfile == 2

\* No skcms_Transform call made
NoPixels ==
    [src |-> 0, srcFmt |-> "RGBA_8888", srcProfile |-> SameProfile,
     dst |-> 0, dstFmt |-> "RGBA_8888", dstProfile |-> SameProfile,
     n |-> 0, orig |-> <<>>]

(***************************************************************************)
(* The state machine: a caller parses a buffer into its profile object and *)
(* then decodes tags of the parsed profile.                                *)
(***************************************************************************)

VARIABLES
    mem,      \* the caller's buffer; len is its length
    prev,     \* what the caller's skcms_ICCProfile held when skcms_Parse was called
    profile,  \* the caller's skcms_ICCProfile (NullPtr for a null pointer)
    pc,       \* "start", then "parsed", then the call made on the profile
    ret,      \* the value the last call returned
    tag,      \* the caller's skcms_ICCTag (NullPtr for a null pointer)
    arg,      \* the signature or index the caller asked for
    px,       \* the arguments of the skcms_Transform calls on the raster in mem
    curve,    \* the Curve filled by read_curve
    mft,      \* the skcms_MultiFunctionTable filled by skcms_GetMultiFunctionTable
    heap      \* the working buffer of skcms_ApproximateTransferFunction

vars == <<mem, prev, profile, pc, ret, tag, arg, px, curve, mft, heap>>

TRCSigs == {Sig_rTRC, Sig_gTRC, Sig_bTRC}

Init ==
    \E in \in Inputs :
        /\ mem = in.mem
        /\ prev = in.prev
        /\ profile = in.prev
        /\ pc = "start"
        /\ ret = FALSE
        /\ tag = NoTag
        /\ arg = U32(0, 0)
        /\ px = NoPixels
        /\ curve = ZeroCurve
        /\ mft = NoMft
        /\ heap = NoHeap

\* bool skcms_Parse(buf, len, profile)
Parse ==
    /\ pc = "start"
    /\ Let(skcms_Parse(mem, Len(mem), profile),
           LAMBDA r : ret' = r.ret /\ profile' = r.profile)
    /\ pc' = "parsed"
    /\ UNCHANGED <<mem, prev, tag, arg, px, curve, mft, heap>>

\* read_curve(tag.buf, tag.size, &curve) on a TRC tag of the parsed profile,
\* as get_transfer_function and skcms_ApproximateTransferFunction call it
ReadCurve ==
    /\ pc = "parsed"
    /\ ret
    /\ \E sig \in TRCSigs :
         Let(skcms_GetTagBySignature(mem, profile, sig, NoTag),
             LAMBDA t :
                 /\ t.ret
                 /\ tag' = t.tag
                 /\ Let(read_curve(mem, t.tag.buf, t.tag.size, ZeroCurve),
                        LAMBDA r : ret' = r.ret /\ curve' = r.curve))
    /\ pc' = "curve"
    /\ UNCHANGED <<mem, prev, profile, arg, px, mft, heap>>

\* bool skcms_GetMultiFunctionTable(profile, &mft)
GetMultiFunctionTable ==
    /\ pc = "parsed"
    /\ ret
    /\ Let(skcms_GetMultiFunctionTable(mem, profile, NoMft),
           LAMBDA r : ret' = r.ret /\ mft' = r.mft)
    /\ pc' = "mft"
    /\ UNCHANGED <<mem, prev, profile, tag, arg, px, curve, heap>>

\* A caller's skcms_ICCTag holding the result of an earlier lookup
DirtyTag == [null |-> FALSE, signature |-> Sig_desc, type |-> Sig_desc,
             size |-> U32(0, 8), buf |-> 1]

\* The tag pointers a caller passes
TagPointers == {DirtyTag, NullPtr}

\* The signatures a caller asks for: tags of the inputs and one no input holds
LookupSigs == {Sig_rTRC, Sig_gTRC, Sig_bXYZ, Sig_A2B0, Sig_desc, make_signature(122, 122, 122, 122)}

\* The indices a caller asks for, around tag_count
LookupIndices(tag_count) ==
    {U32(0, 0), U32(0, 1), U32(65535, 65535)}
      \cup (IF tag_count[1] = 0 /\ tag_count[2] < 100
            THEN {U32(0, n) : n \in {tag_count[2] - 1, tag_count[2], tag_count[2] + 1} \cap Nat}
            ELSE {})

\* The profiles the lookups are called on: parsed ones, and null ones
Usable == IF IsNull(profile) THEN TRUE ELSE IF ret THEN TRUE ELSE profile.buffer = NULL

\* bool skcms_GetTagBySignature(profile, sig, tag)
GetTagBySignature ==
    /\ pc = "parsed"
    /\ Usable
    /\ \E sig \in LookupSigs, t \in TagPointers :
         /\ arg' = sig
         /\ Let(skcms_GetTagBySignature(mem, profile, sig, t),
                LAMBDA r : ret' = r.ret /\ tag' = r.tag)
    /\ pc' = "bysig"
    /\ UNCHANGED <<mem, prev, profile, px, curve, mft, heap>>

\* void skcms_GetTagByIndex(profile, idx, tag), every read finding memory: a
\* field read outside the buffer holds the unknown word of that place
GetTagByIndex ==
    /\ pc = "parsed"
    /\ Usable
    /\ \E idx \in LookupIndices(IF IsNull(profile) THEN U32(0, 0) ELSE profile.tag_count),
          t \in TagPointers :
         /\ arg' = idx
         /\ tag' = skcms_GetTagByIndex(mem, profile, idx, t,
                                       MemoryOutside(mem, profile, idx))
    /\ pc' = "byindex"
    /\ UNCHANGED <<mem, prev, profile, ret, px, curve, mft, heap>>

\* skcms_GetTagByIndex stopped by a read outside the buffer
GetTagByIndexFault ==
    /\ pc = "parsed"
    /\ Usable
    /\ \E idx \in LookupIndices(IF IsNull(profile) THEN U32(0, 0) ELSE profile.tag_count) :
         /\ WildReads(mem, profile, idx)
         /\ arg' = idx
    /\ pc' = "fault"
    /\ UNCHANGED <<mem, prev, profile, ret, tag, px, curve, mft, heap>>

\* The transfer function and the matrices a caller sets: the identity curve,
\* the zero matrix and the matrix of 1 .. 9
SetFunctions == {[TF7(FZero(0)) EXCEPT !.g = F_1, !.a = F_1]}

SetMatrices == {ZeroMatrix, [r \in 0..2 |-> [c \in 0..2 |-> I32ToFloat(3 * r + c + 1)]]}

\* The caller's profile object can be rewritten: it is not a null pointer, and
\* it was parsed into or built before
Rewritable == pc \in {"parsed", "built"} /\ ~IsNull(profile)

\* void skcms_Init(p)
ProfileInit ==
    /\ Rewritable
    /\ profile' = skcms_Init(profile)
    /\ pc' = "built"
    /\ UNCHANGED <<mem, prev, ret, tag, arg, px, curve, mft, heap>>

\* void skcms_SetTransferFunction(p, tf)
SetTransferFunction ==
    /\ Rewritable
    /\ \E tf \in SetFunctions : profile' = skcms_SetTransferFunction(profile, tf)
    /\ pc' = "built"
    /\ UNCHANGED <<mem, prev, ret, tag, arg, px, curve, mft, heap>>

\* void skcms_SetXYZD50(p, m)
SetXYZD50 ==
    /\ Rewritable
    /\ \E m \in SetMatrices : profile' = skcms_SetXYZD50(profile, m)
    /\ pc' = "built"
    /\ UNCHANGED <<mem, prev, ret, tag, arg, px, curve, mft, heap>>

\* The pointers a caller passes for fn
FnPointers == {SomeFn, NullPtr}

\* What a write through a null pointer does
WildWrites == {"fault", "continue"}

\* bool skcms_ApproximateTransferFunction(profile, fn, &max_error) on a parsed
\* profile; malloc gives a block or NULL, the fit succeeds or fails
ApproximateTransferFunction ==
    /\ pc = "parsed"
    /\ ret
    /\ \E fn \in FnPointers, allocated \in BOOLEAN, fit \in BOOLEAN, wild \in WildWrites :
         Let(skcms_ApproximateTransferFunction(mem, profile, fn, heap, allocated, fit, wild),
             LAMBDA r :
                 /\ heap' = r.heap
                 /\ ret' = (IF r.fault THEN ret ELSE r.ret)
                 /\ pc' = (IF r.fault THEN "approx_fault" ELSE "approx"))
    /\ UNCHANGED <<mem, prev, profile, tag, arg, px, curve, mft>>

Next ==
    \/ Parse
    \/ ReadCurve
    \/ GetMultiFunctionTable
    \/ GetTagBySignature
    \/ GetTagByIndex
    \/ GetTagByIndexFault
    \/ ApproximateTransferFunction
    \/ ProfileInit
    \/ SetTransferFunction
    \/ SetXYZD50

Spec == Init /\ [][Next]_vars

(***************************************************************************)
(* A second state machine: a caller converts a raster with skcms_Transform *)
(* and converts the result back.                                           *)
(***************************************************************************)

TransformInit ==
    \E fmt \in SourceFormats, n \in 0..MaxPixels :
      \E raster \in Rasters(Layout(fmt), n) :
        /\ mem = Memory(raster)
        /\ px = [NoPixels EXCEPT !.srcFmt = fmt, !.n = n, !.orig = Memory(raster)]
        /\ pc = "raster"
        /\ ret = FALSE
        /\ prev = NullPtr
        /\ profile = NullPtr
        /\ tag = NoTag
        /\ arg = U32(0, 0)
        /\ curve = ZeroCurve
        /\ mft = NoMft
        /\ heap = NoHeap

\* The ways a call is made: into the other buffer or in place, with one
\* profile on both sides or with two
CallKinds ==
    {[dst |-> RasterLen, dstProfile |-> SameProfile],
     [dst |-> 0,         dstProfile |-> SameProfile],
     [dst |-> RasterLen, dstProfile |-> OtherProfile],
     [dst |-> 0,         dstProfile |-> OtherProfile]}

\* skcms_Transform(dst, dstFmt, dstProfile, src, srcFmt, srcProfile, n)
Transform ==
    /\ pc = "raster"
    /\ \E dstFmt \in PixelFormats, k \in CallKinds :
         /\ px' = [px EXCEPT !.dst = k.dst, !.dstFmt = dstFmt, !.dstProfile = k.dstProfile]
         /\ Let(skcms_Transform(mem, k.dst, dstFmt, k.dstProfile,
                                px.src, px.srcFmt, px.srcProfile, px.n),
                LAMBDA r : ret' = r.ret /\ mem' = r.mem)
    /\ pc' = "once"
    /\ UNCHANGED <<prev, profile, tag, arg, curve, mft, heap>>

\* The converted raster converted back to the format it came from, a format
\* of skcms.h, into the buffer it came from
TransformBack ==
    /\ pc = "once"
    /\ ret
    /\ px.srcFmt \in PixelFormats
    /\ px' = [px EXCEPT !.src = px.dst, !.srcFmt = px.dstFmt,
                        !.dst = px.src, !.dstFmt = px.srcFmt]
    /\ Let(skcms_Transform(mem, px.src, px.srcFmt, px.srcProfile,
                           px.dst, px.dstFmt, px.dstProfile, px.n),
           LAMBDA r : ret' = r.ret /\ mem' = r.mem)
    /\ pc' = "twice"
    /\ UNCHANGED <<prev, profile, tag, arg, curve, mft, heap>>

TransformNext == Transform \/ TransformBack

TransformSpec == TransformInit /\ [][TransformNext]_vars

(***************************************************************************)
(* A third state machine: a caller converts one pixel of integer channels  *)
(* to RGBA_8888, for every value of every channel width.                   *)
(***************************************************************************)

\* The 64 RGB_565 pixels (i/2) | i << 5 | (i/2) << 11
Pixels565 == {PutNative16((i \div 2) + 32 * i + 2048 * (i \div 2)) : i \in 0..63}

\* 1024 RGBA_1010102 pixels holding every 10-bit and every 2-bit value, and
\* the pixel 1023 | 511 << 10 | 4 << 20 | 1 << 30
Pixels1010102 ==
    {Put1010102(v, 1023 - v, (7 * v) % 1024, v % 4) : v \in 0..1023}
      \cup {Put1010102(1023, 511, 4, 1)}

\* The 16384 RGBA_16161616 pixels whose native 64-bit word is
\* 4i | (4i+1) << 16 | (4i+2) << 32 | (4i+3) << 48
Pixels16161616 ==
    {PutNative16(4 * i) \o PutNative16(4 * i + 1) \o PutNative16(4 * i + 2)
       \o PutNative16(4 * i + 3) : i \in 0..16383}

\* The source pixels of a format
ScalingPixels(fmt) ==
    CASE fmt = "RGB_565"       -> Pixels565
      [] fmt = "RGBA_1010102"  -> Pixels1010102
      [] fmt = "RGBA_16161616" -> Pixels16161616

ScalingInit ==
    \E fmt \in {"RGB_565", "RGBA_1010102", "RGBA_16161616"} :
      \E pixel \in ScalingPixels(fmt) :
        /\ mem = Memory(pixel)
        /\ px = [NoPixels EXCEPT !.srcFmt = fmt, !.n = 1, !.orig = Memory(pixel)]
        /\ pc = "pixel"
        /\ ret = FALSE
        /\ prev = NullPtr
        /\ profile = NullPtr
        /\ tag = NoTag
        /\ arg = U32(0, 0)
        /\ curve = ZeroCurve
        /\ mft = NoMft
        /\ heap = NoHeap

\* skcms_Transform(dst, RGBA_8888, &profile, src, srcFmt, &profile, 1)
TransformToBytes ==
    /\ pc = "pixel"
    /\ px' = [px EXCEPT !.dst = RasterLen, !.dstFmt = "RGBA_8888"]
    /\ Let(skcms_Transform(mem, RasterLen, "RGBA_8888", px.dstProfile,
                           px.src, px.srcFmt, px.srcProfile, px.n),
           LAMBDA r : ret' = r.ret /\ mem' = r.mem)
    /\ pc' = "bytes"
    /\ UNCHANGED <<prev, profile, tag, arg, curve, mft, heap>>

ScalingNext == TransformToBytes

ScalingSpec == ScalingInit /\ [][ScalingNext]_vars

(***************************************************************************)
(* The documented behaviour, stated on the bytes of the buffer.            *)
(*                                                                         *)
(* The definitions below read the buffer directly and compute in           *)
(* mathematical integers: a number too large for one machine word is kept  *)
(* as <<high, low>> with low < 65536 and high unbounded, so that nothing   *)
(* wraps.                                                                  *)
(***************************************************************************)

\* The big-endian 32-bit word at offset p
WordAt(buf, p) == <<256 * buf[p + 1] + buf[p + 2], 256 * buf[p + 3] + buf[p + 4]>>

MathNum(n) == <<n \div Limb, n % Limb>>

MathLt(x, y) == x[1] < y[1] \/ (x[1] = y[1] /\ x[2] < y[2])

MathAdd(x, y) == <<x[1] + y[1] + (x[2] + y[2]) \div Limb, (x[2] + y[2]) % Limb>>

\* 132 + 12 * tag_count
MathTableEnd(tag_count) ==
    <<12 * tag_count[1] + (12 * tag_count[2] + 132) \div Limb, (12 * tag_count[2] + 132) % Limb>>

\* A 32-bit word as a signed integer
SignedWord(w) == IF w[1] >= 32768 THEN (w[1] - Limb) * Limb + w[2] ELSE w[1] * Limb + w[2]

Abs(n) == IF n < 0 THEN -n ELSE n

\* |k / 65536 - c / 10000| <= 1 / 100, for the s15.16 value k
WithinHundredth(k, c) ==
    /\ -2 * Limb <= k /\ k <= 2 * Limb
    /\ Abs(10000 * k - Limb * c) <= 100 * Limb

LenOK(buf) == Len(buf) >= 132

DeclaredSize(buf) == WordAt(buf, 0)

DeclaredTagCount(buf) == WordAt(buf, 128)

SizeOK(buf) ==
    /\ ~MathLt(MathNum(Len(buf)), DeclaredSize(buf))
    /\ ~MathLt(DeclaredSize(buf), MathTableEnd(DeclaredTagCount(buf)))

SignatureOK(buf) == <<buf[37], buf[38], buf[39], buf[40]>> = <<97, 99, 115, 112>>

VersionOK(buf) == buf[9] <= 4

IlluminantOK(buf) ==
    /\ WithinHundredth(SignedWord(WordAt(buf, 68)), 9642)
    /\ WithinHundredth(SignedWord(WordAt(buf, 72)), 10000)
    /\ WithinHundredth(SignedWord(WordAt(buf, 76)), 8249)

HeaderOK(buf) ==
    LenOK(buf) /\ SizeOK(buf) /\ SignatureOK(buf) /\ VersionOK(buf) /\ IlluminantOK(buf)

EntryOffset(buf, i) == WordAt(buf, 132 + 12 * i + 4)

EntrySize(buf, i) == WordAt(buf, 132 + 12 * i + 8)

EntryOK(buf, i) ==
    /\ ~MathLt(EntrySize(buf, i), MathNum(4))
    /\ ~MathLt(DeclaredSize(buf), MathAdd(EntryOffset(buf, i), EntrySize(buf, i)))

\* The entries of the tag table, for a buffer whose declared size is SizeOK
Entries(buf) == 0 .. (DeclaredTagCount(buf)[1] * Limb + DeclaredTagCount(buf)[2] - 1)

EntriesOK(buf) == \A i \in Entries(buf) : EntryOK(buf, i)

(***************************************************************************)
(* C1                                                                      *)
(***************************************************************************)

\* C1: whenever skcms_Parse returns false for a non-null profile, whatever the
\* buffer, its length and the previous contents of the profile, has_tf,
\* has_toXYZD50 and has_A2B are all false.
C1_FailedParseLeavesProfileEmpty ==
    (pc = "parsed" /\ ~ret /\ ~IsNull(profile))
        => (~profile.has_tf /\ ~profile.has_toXYZD50 /\ ~profile.has_A2B)

\* A profile that held the result of an earlier parse, after a parse that
\* failed once the header had been read
C1_Witness ==
    /\ pc = "parsed" /\ ~ret /\ ~IsNull(profile)
    /\ prev.has_tf /\ prev.has_toXYZD50 /\ prev.has_A2B
    /\ LenOK(mem)

(***************************************************************************)
(* C2                                                                      *)
(***************************************************************************)

\* C2: skcms_Parse returns false when len < 132, when the declared size exceeds
\* len, and when the declared size is less than 132 + 12 * tag_count computed
\* without wraparound.
C2_LengthAndSizeChecked ==
    (pc = "parsed" /\ (~LenOK(mem) \/ ~SizeOK(mem))) => ~ret

\* A tag count whose table size is 8 modulo 2^32, in a header whose declared
\* size fits the buffer and would hold a table of 8 bytes
C2_Witness ==
    /\ pc = "parsed" /\ ~ret /\ ~IsNull(profile)
    /\ LenOK(mem) /\ SignatureOK(mem) /\ VersionOK(mem)
    /\ DeclaredTagCount(mem) = <<5461, 21846>>
    /\ ~MathLt(MathNum(Len(mem)), DeclaredSize(mem))
    /\ ~MathLt(DeclaredSize(mem), MathNum(140))

(***************************************************************************)
(* C3                                                                      *)
(***************************************************************************)

\* C3: skcms_Parse returns false when the word at offset 36 is not 'acsp' or the
\* top byte of the version word is greater than 4.
C3_SignatureAndVersionChecked ==
    (pc = "parsed" /\ LenOK(mem) /\ (~SignatureOK(mem) \/ ~VersionOK(mem))) => ~ret

\* A version-5 profile that is well formed in every other respect
C3_Witness ==
    /\ pc = "parsed" /\ ~ret /\ ~IsNull(profile)
    /\ LenOK(mem) /\ SizeOK(mem) /\ SignatureOK(mem) /\ IlluminantOK(mem)
    /\ EntriesOK(mem)
    /\ mem[9] = 5

(***************************************************************************)
(* C4                                                                      *)
(***************************************************************************)

\* C4: a buffer passing the header checks is rejected when some tag-table entry
\* has size < 4 or offset + size, as a mathematical sum, above the declared
\* size, and is accepted when every entry satisfies both conditions.
C4_TagEntriesChecked ==
    (pc = "parsed" /\ ~IsNull(profile) /\ HeaderOK(mem)) => (ret <=> EntriesOK(mem))

\* An entry of size >= 4 whose offset + size reaches 2^32
C4_Witness ==
    /\ pc = "parsed" /\ ~ret /\ ~IsNull(profile) /\ HeaderOK(mem)
    /\ \E i \in Entries(mem) :
         /\ ~MathLt(EntrySize(mem, i), MathNum(4))
         /\ MathAdd(EntryOffset(mem, i), EntrySize(mem, i))[1] >= Limb
    /\ \A i \in Entries(mem) :
         \/ EntryOK(mem, i)
         \/ MathAdd(EntryOffset(mem, i), EntrySize(mem, i))[1] >= Limb

(***************************************************************************)
(* C5                                                                      *)
(***************************************************************************)

\* C5: skcms_Parse returns false when an illuminant field, read as signed
\* s15.16, is more than 0.01 away from D50, and does not reject a buffer that
\* passes the other checks when all three fields are within 0.01.
C5_IlluminantChecked ==
    (pc = "parsed" /\ ~IsNull(profile) /\ LenOK(mem))
        => /\ ~IlluminantOK(mem) => ~ret
           /\ (HeaderOK(mem) /\ EntriesOK(mem)) => ret

\* The X field one step of s15.16 below 0.9642 - 0.01, everything else well formed
C5_Witness ==
    /\ pc = "parsed" /\ ~ret /\ ~IsNull(profile)
    /\ LenOK(mem) /\ SizeOK(mem) /\ SignatureOK(mem) /\ VersionOK(mem) /\ EntriesOK(mem)
    /\ WordAt(mem, 68) = <<0, 62534>>
    /\ WithinHundredth(SignedWord(WordAt(mem, 72)), 10000)
    /\ WithinHundredth(SignedWord(WordAt(mem, 76)), 8249)

(***************************************************************************)
(* C6                                                                      *)
(***************************************************************************)

\* The curve decoded from the tag of signature sig; ret is FALSE when the tag is
\* absent or does not decode.
DecodedTRC(sig) ==
    Let(skcms_GetTagBySignature(mem, profile, sig, NoTag),
        LAMBDA t : IF t.ret THEN read_curve(mem, t.tag.buf, t.tag.size, ZeroCurve)
                   ELSE [ret |-> FALSE, curve |-> ZeroCurve])

Parametric(d) == d.ret /\ d.curve.table = NULL

ThreeEqualParametricTRCs ==
    Let(<<DecodedTRC(Sig_rTRC), DecodedTRC(Sig_gTRC), DecodedTRC(Sig_bTRC)>>,
        LAMBDA d :
            /\ Parametric(d[1]) /\ Parametric(d[2]) /\ Parametric(d[3])
            /\ d[1].curve.parametric = d[2].curve.parametric
            /\ d[2].curve.parametric = d[3].curve.parametric)

\* C6: after a successful parse, has_tf is true exactly when rTRC, gTRC and bTRC
\* are all present, all decode, all are parametric and their seven parameters
\* are equal byte for byte.
C6_HasTFIffThreeEqualParametricCurves ==
    (pc = "parsed" /\ ret) => (profile.has_tf <=> ThreeEqualParametricTRCs)

\* Three parametric curves, the blue one differing from the other two
C6_Witness ==
    /\ pc = "parsed" /\ ret /\ ~profile.has_tf
    /\ Parametric(DecodedTRC(Sig_rTRC)) /\ Parametric(DecodedTRC(Sig_gTRC))
    /\ Parametric(DecodedTRC(Sig_bTRC))
    /\ DecodedTRC(Sig_rTRC).curve.parametric = DecodedTRC(Sig_gTRC).curve.parametric
    /\ DecodedTRC(Sig_bTRC).curve.parametric # DecodedTRC(Sig_gTRC).curve.parametric

(***************************************************************************)
(* C7                                                                      *)
(***************************************************************************)

Tabulated(d) == d.ret /\ d.curve.table # NULL

\* C7: when the parse succeeds and has_tf is false because a TRC is a 'curv'
\* table of two or more samples, the profile stores each tabulated curve: its
\* sample count and a pointer to its samples in the buffer.
C7_TabulatedCurvesStored ==
    (/\ pc = "parsed" /\ ret /\ ~profile.has_tf
     /\ \E sig \in TRCSigs : Tabulated(DecodedTRC(sig)))
        => \A k \in 0..2 :
             Let(DecodedTRC(<<Sig_rTRC, Sig_gTRC, Sig_bTRC>>[k + 1]),
                 LAMBDA d :
                     Tabulated(d)
                         => /\ profile.trc[k].table_entries = U32ToInt(d.curve.table_size)
                            /\ profile.trc[k].table_16 = d.curve.table)

(***************************************************************************)
(* C8                                                                      *)
(***************************************************************************)

\* C8: after a successful parse of a profile whose A2B0 tag is a valid 'mft1' or
\* 'mft2' table, has_A2B is true and A2B holds the tag's channel counts; when
\* the tag is absent, of another type or invalid, has_A2B is false.
C8_ValidA2BRecorded ==
    (pc = "parsed" /\ ret)
        => Let(skcms_GetMultiFunctionTable(mem, profile, NoMft),
               LAMBDA m :
                   IF m.ret
                   THEN /\ profile.has_A2B
                        /\ profile.A2B.input_channels = m.mft.input_channels
                        /\ profile.A2B.output_channels = m.mft.output_channels
                   ELSE ~profile.has_A2B)

(***************************************************************************)
(* C9                                                                      *)
(***************************************************************************)

\* C9: for a non-null profile, skcms_Parse returns true exactly when the buffer
\* passes the header checks and the tag-table entry checks, whatever its TRC,
\* XYZ and A2B0 tags hold.
C9_ReturnDependsOnHeaderAndTable ==
    (pc = "parsed" /\ ~IsNull(profile)) => (ret <=> (HeaderOK(mem) /\ EntriesOK(mem)))

\* A successful parse of a buffer whose rTRC has an unknown type and whose rXYZ
\* is one byte short
C9_Witness ==
    /\ pc = "parsed" /\ ret
    /\ ~profile.has_tf /\ ~profile.has_toXYZD50
    /\ Let(skcms_GetTagBySignature(mem, profile, Sig_rTRC, NoTag),
           LAMBDA t : t.ret /\ t.tag.type \notin {Sig_para, Sig_curv})
    /\ Let(skcms_GetTagBySignature(mem, profile, Sig_rXYZ, NoTag),
           LAMBDA t : t.ret /\ t.tag.type = Sig_XYZ /\ U32ToInt(t.tag.size) = 19)

(***************************************************************************)
(* C10                                                                     *)
(***************************************************************************)

\* The function type and the k-th stored parameter of the 'para' tag read last
ParaType == 256 * mem[tag.buf + 9] + mem[tag.buf + 10]

Stored(k) == read_big_fixed(mem, tag.buf + 12 + 4 * k)

\* The number of parameters a function type stores
StoredCount(t) == <<1, 3, 4, 5, 7>>[t + 1]

\* The record the documentation gives for function type t
DocumentedPara(t) ==
    [g |-> Stored(0),
     a |-> IF t >= 1 THEN Stored(1) ELSE F_1,
     b |-> IF t >= 1 THEN Stored(2) ELSE FZero(0),
     c |-> IF t >= 3 THEN Stored(3) ELSE FZero(0),
     d |-> IF t \in {1, 2} THEN FDiv(FNeg(Stored(2)), Stored(1))
           ELSE IF t >= 3 THEN Stored(4) ELSE FZero(0),
     e |-> IF t = 2 THEN Stored(3) ELSE IF t = 4 THEN Stored(5) ELSE FZero(0),
     f |-> IF t = 2 THEN Stored(3) ELSE IF t = 4 THEN Stored(6) ELSE FZero(0)]

ZeroA(t) == t \in {1, 2} /\ FIsZero(Stored(1))

\* C10: decoding a 'para' curve rejects function types above 4; for types 0..4
\* it reads the stored parameters in order, leaves the others 0 with a = 1,
\* rejects a == 0 for types 1 and 2 and otherwise sets d = -b/a, and for type 2
\* assigns the fourth stored parameter to e and f.
C10_ParaDecoding ==
    (pc = "curve" /\ tag.type = Sig_para /\ U32ToInt(tag.size) >= 12)
        => /\ ParaType > 4 => ~ret
           /\ (ParaType <= 4 /\ ZeroA(ParaType)) => ~ret
           /\ ret => /\ ParaType <= 4
                     /\ curve.table = NULL
                     /\ curve.parametric = DocumentedPara(ParaType)
           /\ (/\ ParaType <= 4 /\ ~ZeroA(ParaType)
               /\ U32ToInt(tag.size) >= 12 + 4 * StoredCount(ParaType)) => ret

\* A type-2 curve with a # 0 and a non-zero fourth parameter, decoded
C10_Witness ==
    /\ pc = "curve" /\ ret /\ tag.type = Sig_para /\ U32ToInt(tag.size) >= 12
    /\ ParaType = 2
    /\ ~FIsZero(Stored(3))
    /\ curve.parametric.e = Stored(3)

(***************************************************************************)
(* C11                                                                     *)
(***************************************************************************)

\* The value count of the 'curv' tag read last, and 12 + 2 * value_count
CurvCount == WordAt(mem, tag.buf + 8)

CurvEnd == <<2 * CurvCount[1] + (2 * CurvCount[2] + 12) \div Limb,
             (2 * CurvCount[2] + 12) % Limb>>

CurvTooShort == MathLt(tag.size, MathNum(12)) \/ MathLt(tag.size, CurvEnd)

\* The gamma of a one-sample 'curv' tag: the big-endian u16 sample over 256
CurvGamma == FMulPow2(I32ToFloat(256 * mem[tag.buf + 13] + mem[tag.buf + 14]), -8)

\* The record the documentation gives for a 'curv' tag of 0 or 1 samples
DocumentedCurv ==
    [g |-> IF CurvCount = <<0, 0>> THEN F_1 ELSE CurvGamma,
     a |-> F_1, b |-> FZero(0), c |-> FZero(0), d |-> FZero(0), e |-> FZero(0),
     f |-> FZero(0)]

\* C11: decoding a 'curv' curve rejects a tag shorter than 12 + 2 * value_count
\* (no wraparound); otherwise 0 samples give the identity curve, 1 sample the
\* gamma u16 / 256 with a = 1 and the rest 0, both without a table, and 2 or
\* more samples a table of value_count entries at the samples.
C11_CurvDecoding ==
    (pc = "curve" /\ tag.type = Sig_curv)
        => IF CurvTooShort THEN ~ret
           ELSE /\ ret
                /\ IF MathLt(CurvCount, MathNum(2))
                   THEN curve.table = NULL /\ curve.parametric = DocumentedCurv
                   ELSE curve.table = tag.buf + 12 /\ curve.table_size = CurvCount

\* A value count of 2^31, whose samples would take 0 bytes modulo 2^32, in a tag
\* long enough for the fixed part
C11_Witness ==
    /\ pc = "curve" /\ ~ret /\ tag.type = Sig_curv
    /\ CurvCount = <<32768, 0>>
    /\ ~MathLt(tag.size, MathNum(12))

(***************************************************************************)
(* C12                                                                     *)
(***************************************************************************)

\* The tag-table entries of signature sig, and the offset of the data of the
\* lowest of them
Matching(buf, sig) == {i \in Entries(buf) : WordAt(buf, 132 + 12 * i) = sig}

Lowest(S) == CHOOSE i \in S : \A j \in S : i <= j

DataAt(buf, sig) ==
    Let(EntryOffset(buf, Lowest(Matching(buf, sig))), LAMBDA w : w[1] * Limb + w[2])

\* A tag of signature sig is present, of type 'XYZ ' and at least 20 bytes long
XYZTagOK(buf, sig) ==
    /\ Matching(buf, sig) # {}
    /\ WordAt(buf, DataAt(buf, sig)) = <<22617, 23072>>
    /\ ~MathLt(EntrySize(buf, Lowest(Matching(buf, sig))), MathNum(20))

\* The s15.16 field r (0 for X, 1 for Y, 2 for Z) of the tag of signature sig
XYZField(buf, sig, r) == read_big_fixed(buf, DataAt(buf, sig) + 8 + 4 * r)

\* C12: after a successful parse has_toXYZD50 is true exactly when rXYZ, gXYZ and
\* bXYZ are all present, of type 'XYZ ' and at least 20 bytes long, and then
\* columns 0, 1 and 2 of toXYZD50 are the X, Y, Z fields of rXYZ, gXYZ and bXYZ.
C12_ToXYZD50FromThreeXYZTags ==
    (pc = "parsed" /\ ret)
        => /\ profile.has_toXYZD50
                <=> (XYZTagOK(mem, Sig_rXYZ) /\ XYZTagOK(mem, Sig_gXYZ)
                       /\ XYZTagOK(mem, Sig_bXYZ))
           /\ profile.has_toXYZD50
                => \A r \in 0..2 :
                     /\ profile.toXYZD50[r][0] = XYZField(mem, Sig_rXYZ, r)
                     /\ profile.toXYZD50[r][1] = XYZField(mem, Sig_gXYZ, r)
                     /\ profile.toXYZD50[r][2] = XYZField(mem, Sig_bXYZ, r)

\* Three well-formed XYZ tags whose matrix is not symmetric
C12_Witness ==
    /\ pc = "parsed" /\ ret /\ profile.has_toXYZD50
    /\ profile.toXYZD50[0][1] = XYZField(mem, Sig_gXYZ, 0)
    /\ profile.toXYZD50[0][1] # profile.toXYZD50[1][0]

(***************************************************************************)
(* C13 and C14                                                             *)
(***************************************************************************)

\* The A2B0 tag of the buffer: its data, size and fields
A2BPresent == Matching(mem, Sig_A2B0) # {}

A2BAt == DataAt(mem, Sig_A2B0)

A2BSize == Let(EntrySize(mem, Lowest(Matching(mem, Sig_A2B0))), LAMBDA w : w[1] * Limb + w[2])

IsMft1 == WordAt(mem, A2BAt) = <<28006, 29745>>

IsMft2 == WordAt(mem, A2BAt) = <<28006, 29746>>

A2BFixedLen == IF IsMft1 THEN 48 ELSE 52

A2BInputChannels == mem[A2BAt + 9]

A2BOutputChannels == mem[A2BAt + 10]

A2BGridPoints == mem[A2BAt + 11]

A2BInputTableSize == IF IsMft1 THEN 256 ELSE 256 * mem[A2BAt + 49] + mem[A2BAt + 50]

A2BOutputTableSize == IF IsMft1 THEN 256 ELSE 256 * mem[A2BAt + 51] + mem[A2BAt + 52]

A2BWidth == IF IsMft1 THEN 1 ELSE 2

A2BShapeOK ==
    /\ A2BOutputChannels = 3
    /\ A2BInputChannels >= 1 /\ A2BInputChannels <= 4
    /\ A2BGridPoints >= 2

A2BTableSizesOK ==
    \/ IsMft1
    \/ /\ A2BInputTableSize >= 2 /\ A2BInputTableSize <= 4096
       /\ A2BOutputTableSize >= 2 /\ A2BOutputTableSize <= 4096

A2BAdmissible ==
    /\ A2BPresent
    /\ IsMft1 \/ IsMft2
    /\ A2BSize >= A2BFixedLen
    /\ A2BShapeOK
    /\ A2BTableSizesOK

\* C13: skcms_GetMultiFunctionTable succeeds only for an 'mft1' or 'mft2' A2B0 tag
\* with 3 output channels, 1 to 4 input channels and at least 2 grid points, and
\* for 'mft2' table sizes in [2, 4096]; the table sizes are 256 with byte width
\* 1 for 'mft1' and the header's with byte width 2 for 'mft2'.
C13_MftFieldsChecked ==
    (pc = "mft" /\ ret)
        => /\ A2BAdmissible
           /\ mft.input_channels = A2BInputChannels
           /\ mft.output_channels = A2BOutputChannels
           /\ mft.grid_points = A2BGridPoints
           /\ mft.input_table_size = A2BInputTableSize
           /\ mft.output_table_size = A2BOutputTableSize
           /\ mft.table_byte_width = A2BWidth

\* An 'mft2' tag of a good shape and 4097-entry input tables, with all the bytes
\* its fields ask for
C13_Witness ==
    /\ pc = "mft" /\ ~ret /\ A2BPresent /\ IsMft2 /\ A2BShapeOK
    /\ A2BInputTableSize = 4097 /\ A2BOutputTableSize = 2
    /\ A2BSize >= 52 + 2 * 4097 + 12 + 12

MathMul(x, k) == <<x[1] * k + (x[2] * k) \div Limb, (x[2] * k) % Limb>>

\* x * g^n
RECURSIVE MathTimesPower(_, _, _)
MathTimesPower(x, g, n) == IF n = 0 THEN x ELSE MathTimesPower(MathMul(x, g), g, n - 1)

\* input_channels * input_table_size * width
\*   + 3 * grid_points^input_channels * width + 3 * output_table_size * width
A2BBytesNeeded ==
    MathAdd(MathAdd(MathNum(A2BInputChannels * A2BInputTableSize * A2BWidth),
                    MathTimesPower(MathNum(3 * A2BWidth), A2BGridPoints, A2BInputChannels)),
            MathNum(3 * A2BOutputTableSize * A2BWidth))

\* C14: for an admissible A2B0 tag skcms_GetMultiFunctionTable succeeds exactly
\* when the bytes after the fixed header are at least the bytes of the input
\* tables, the grid and the output tables, summed without overflow.
C14_MftTableBytesChecked ==
    (pc = "mft" /\ A2BAdmissible)
        => (ret <=> ~MathLt(MathNum(A2BSize - A2BFixedLen), A2BBytesNeeded))

\* Four axes of 255 grid points: a grid of more than 2^32 bytes
C14_Witness ==
    /\ pc = "mft" /\ ~ret /\ A2BAdmissible
    /\ A2BInputChannels = 4 /\ A2BGridPoints = 255
    /\ A2BBytesNeeded[1] >= Limb

(***************************************************************************)
(* C15                                                                     *)
(***************************************************************************)

\* A null profile, a profile without buffer, or a null tag pointer
NullLookup == IF IsNull(profile) THEN TRUE ELSE IF IsNull(tag) THEN TRUE ELSE profile.buffer = NULL

\* The tag unchanged by the call
TagUnmodified == IF IsNull(tag) THEN TRUE ELSE tag = DirtyTag

\* The skcms_ICCTag the documentation describes for entry i of the table
DocumentedTag(buf, i) ==
    Let(EntryOffset(buf, i),
        LAMBDA off : [null |-> FALSE,
                      signature |-> WordAt(buf, 132 + 12 * i),
                      size      |-> EntrySize(buf, i),
                      buf       |-> off[1] * Limb + off[2],
                      type      |-> WordAt(buf, off[1] * Limb + off[2])])

\* C15: skcms_GetTagBySignature returns true exactly when an entry of index
\* below tag_count has the requested signature, and then fills the tag from
\* the lowest such entry; when no entry matches, or the profile, its buffer or
\* the tag pointer is null, it returns false and leaves the tag unmodified.
C15_LookupBySignature ==
    pc = "bysig" =>
        IF NullLookup THEN ~ret /\ TagUnmodified
        ELSE IF Matching(mem, arg) = {} THEN ~ret /\ TagUnmodified
        ELSE ret /\ tag = DocumentedTag(mem, Lowest(Matching(mem, arg)))

\* A lookup of a signature two entries have, answered from the first
C15_Witness ==
    /\ pc = "bysig" /\ ret /\ ~NullLookup
    /\ Cardinality(Matching(mem, arg)) = 2
    /\ \E i \in Matching(mem, arg) :
          i # Lowest(Matching(mem, arg)) /\ DocumentedTag(mem, i) # tag

(***************************************************************************)
(* C16                                                                     *)
(***************************************************************************)

\* The index asked for, as a number pair, is below the declared tag count
IndexInTable == MathLt(arg, DeclaredTagCount(mem))

\* C16 as documented: skcms_GetTagByIndex fills the tag from entry idx when
\* idx < tag_count; for idx >= tag_count, idx = tag_count included, it leaves
\* the tag unmodified and reads no entry at or beyond tag_count.
C16_LookupByIndex ==
    /\ (pc = "byindex" /\ ~NullLookup) =>
           IF IndexInTable THEN tag = DocumentedTag(mem, arg[2])
           ELSE TagUnmodified
    /\ (pc = "byindex" /\ NullLookup) => TagUnmodified
    /\ pc # "fault"

\* What the code does: the tag is left alone only for idx > tag_count, and
\* for idx <= tag_count it is filled from entry idx whenever the reads stay
\* inside the buffer.
C16_CodeBehaviour ==
    (pc = "byindex" /\ ~NullLookup) =>
        IF MathLt(DeclaredTagCount(mem), arg) THEN TagUnmodified
        ELSE IF IndexInTable THEN tag = DocumentedTag(mem, arg[2])
        ELSE Len(mem) >= 132 + 12 * arg[2] + 12 =>
                 /\ tag.signature = WordAt(mem, 132 + 12 * arg[2])
                 /\ tag.size = EntrySize(mem, arg[2])

\* A lookup at idx = tag_count that overwrote the caller's tag
C16_Witness ==
    /\ pc = "byindex" /\ ~NullLookup
    /\ arg = DeclaredTagCount(mem)
    /\ tag # DirtyTag

(***************************************************************************)
(* The documented behaviour of skcms_Transform, stated on the bytes of the *)
(* rasters.                                                                *)
(***************************************************************************)

\* The call converts in place
InPlace == px.dst = px.src

\* The call has one profile on both sides
NoColorConversion == px.srcProfile = px.dstProfile

\* The bytes of the n pixels of format fmt at offset p of the memory m
RasterAt(m, p, fmt, n) == SubSeq(m, p + 1, p + n * BytesPerPixel(fmt))

\* The source raster as it was before the call, and the destination after it
SrcBytes == RasterAt(px.orig, px.src, px.srcFmt, px.n)

DstBytes == RasterAt(mem, px.dst, px.dstFmt, px.n)

\* Pixel i (from 0) of a raster b of format fmt
PixelOf(b, fmt, i) == SubSeq(b, i * BytesPerPixel(fmt) + 1, (i + 1) * BytesPerPixel(fmt))

(***************************************************************************)
(* C17                                                                     *)
(***************************************************************************)

\* Half k and float k (from 1) of a raster b, the float as <<high, low>>
HalfAt(b, k) == b[2 * k - 1] + 256 * b[2 * k]

FloatAt(b, k) ==
    <<b[4 * k] * 256 + b[4 * k - 1], b[4 * k - 2] * 256 + b[4 * k - 3]>>

\* A half that is a denormal or a NaN, and a float that is a NaN
DenormalHalf(h) == (h \div 1024) % 32 = 0 /\ h % 1024 # 0

NaNHalf(h) == (h \div 1024) % 32 = 31 /\ h % 1024 # 0

NaNFloat(w) == (w[1] \div 128) % 256 = 255 /\ ((w[1] % 128) # 0 \/ w[2] # 0)

\* The zeros of the halfs and of the floats
HalfZeros == {0, 32768}

FloatZeros == {<<0, 0>>, <<32768, 0>>}

\* The raster d holds the words of the raster b of format fmt, a zero where
\* b holds a denormal half or a NaN
CarriedExactly(fmt, b, d) ==
    /\ Len(d) = Len(b)
    /\ CASE Layout(fmt) \in {"hhh", "hhhh"} ->
               \A k \in 1..(Len(b) \div 2) :
                   IF DenormalHalf(HalfAt(b, k)) \/ NaNHalf(HalfAt(b, k))
                   THEN HalfAt(d, k) \in HalfZeros
                   ELSE HalfAt(d, k) = HalfAt(b, k)
         [] Layout(fmt) \in {"fff", "ffff"} ->
               \A k \in 1..(Len(b) \div 4) :
                   IF NaNFloat(FloatAt(b, k)) THEN FloatAt(d, k) \in FloatZeros
                   ELSE FloatAt(d, k) = FloatAt(b, k)
         [] OTHER -> d = b

\* C17 as documented: for every pixel format F and every source buffer,
\* skcms_Transform from F to F without colour conversion succeeds and the
\* destination bytes equal the source bytes.
C17_SameFormatIsIdentity ==
    (pc = "once" /\ px.srcFmt = px.dstFmt /\ NoColorConversion) =>
        ret /\ DstBytes = SrcBytes

\* C17 amended: skcms_Transform from F to F without colour conversion
\* succeeds, and every destination byte equals the source byte, except that
\* a denormal half, a NaN half and a NaN float are written as a zero; zeros
\* of either sign, infinities and values outside [0, 1] are written as read.
C17_SameFormatIsIdentityButForDenormalsAndNaNs ==
    (pc = "once" /\ px.srcFmt = px.dstFmt /\ NoColorConversion) =>
        ret /\ CarriedExactly(px.srcFmt, SrcBytes, DstBytes)

\* Two pixels of halfs copied into the other buffer: 2.0, -1.0, -0 and +inf
\* written as read, the denormals 0x03ff and 0x83ff written as zeros
C17_Witness ==
    /\ pc = "once" /\ ret /\ ~InPlace /\ NoColorConversion
    /\ px.srcFmt = "RGBA_hhhh" /\ px.dstFmt = "RGBA_hhhh"
    /\ px.n = 2
    /\ PixelOf(SrcBytes, px.srcFmt, 0) = <<0, 64, 0, 188, 0, 128, 0, 124>>
    /\ PixelOf(DstBytes, px.dstFmt, 0) = <<0, 64, 0, 188, 0, 128, 0, 124>>
    /\ PixelOf(SrcBytes, px.srcFmt, 1) = <<0, 64, 255, 3, 255, 131, 0, 188>>
    /\ HalfAt(PixelOf(DstBytes, px.dstFmt, 1), 2) \in HalfZeros
    /\ HalfAt(PixelOf(DstBytes, px.dstFmt, 1), 3) \in HalfZeros
    /\ HalfAt(PixelOf(DstBytes, px.dstFmt, 1), 4) = 48128

(***************************************************************************)
(* C18                                                                     *)
(***************************************************************************)

\* The call converts between RGBA_8888 and BGRA_8888, one way or the other
SwapCall ==
    /\ {px.srcFmt, px.dstFmt} = {"RGBA_8888", "BGRA_8888"}
    /\ NoColorConversion

\* The raster b with bytes 0 and 2 of every four exchanged
Swapped(b) ==
    [k \in 1..Len(b) |-> IF k % 4 = 1 THEN b[k + 2] ELSE IF k % 4 = 3 THEN b[k - 2] ELSE b[k]]

\* C18: without colour conversion, RGBA_8888 to BGRA_8888 and BGRA_8888 to
\* RGBA_8888 both exchange bytes 0 and 2 of every pixel and keep bytes 1 and
\* 3; the swap made twice, in place too, restores the bytes of every pixel.
C18_SwapTwiceRestores ==
    /\ (pc = "once" /\ SwapCall) => ret /\ DstBytes = Swapped(SrcBytes)
    /\ (pc = "twice" /\ SwapCall) =>
           ret /\ DstBytes = RasterAt(px.orig, px.dst, px.dstFmt, px.n)

\* Two swaps in place of a raster whose pixels differ in bytes 0 and 2
C18_Witness ==
    /\ pc = "twice" /\ ret /\ SwapCall /\ InPlace
    /\ px.n >= 2
    /\ Swapped(DstBytes) # DstBytes
    /\ mem = px.orig

(***************************************************************************)
(* C19                                                                     *)
(***************************************************************************)

\* The destination raster of the same call made into the other buffer
OtherBufferResult ==
    RasterAt(skcms_Transform(px.orig, RasterLen, px.dstFmt, px.dstProfile,
                             px.src, px.srcFmt, px.srcProfile, px.n).mem,
             RasterLen, px.dstFmt, px.n)

\* C19 as documented: skcms_Transform with dst == src returns false and
\* leaves the buffer unchanged when the two formats differ in bytes per
\* pixel; when they agree it succeeds with the bytes the call into another
\* buffer produces.
C19_InPlaceSucceedsOnEqualPixelSizes ==
    (pc = "once" /\ InPlace) =>
        IF BytesPerPixel(px.srcFmt) # BytesPerPixel(px.dstFmt)
        THEN ~ret /\ mem = px.orig
        ELSE ret /\ DstBytes = OtherBufferResult

\* C19 amended: skcms_Transform with dst == src returns false and leaves the
\* buffer unchanged when the two formats differ in bytes per pixel, whatever
\* the profiles are; when they agree and one profile is on both sides it
\* succeeds with the bytes the call into another buffer produces; when they
\* agree and the two profiles cannot be converted between, it returns false
\* and leaves the buffer unchanged.
C19_InPlaceNeedsEqualPixelSizes ==
    (pc = "once" /\ InPlace) =>
        IF BytesPerPixel(px.srcFmt) # BytesPerPixel(px.dstFmt)
        THEN ~ret /\ mem = px.orig
        ELSE IF NoColorConversion THEN ret /\ DstBytes = OtherBufferResult
        ELSE ~ret /\ mem = px.orig

\* RGBA_8888 to BGRA_8888 in place: two pixels swapped where they lay, as the
\* call into the other buffer swaps them
C19_Witness ==
    /\ pc = "once" /\ InPlace /\ NoColorConversion
    /\ px.srcFmt = "RGBA_8888" /\ px.dstFmt = "BGRA_8888" /\ px.n = 2
    /\ ret
    /\ DstBytes = OtherBufferResult
    /\ DstBytes # SrcBytes

(***************************************************************************)
(* C20                                                                     *)
(***************************************************************************)

\* The formats without an alpha channel
NoAlphaFormats ==
    {"RGB_565", "BGR_565", "RGB_888", "BGR_888", "RGB_101010x",
     "RGB_161616", "BGR_161616", "RGB_hhh", "BGR_hhh", "RGB_fff", "BGR_fff"}

\* The alpha-carrying format of the same channels; 565 has none
WithAlphaFormat(fmt) ==
    CASE fmt = "RGB_888"     -> "RGBA_8888"
      [] fmt = "BGR_888"     -> "BGRA_8888"
      [] fmt = "RGB_101010x" -> "RGBA_1010102"
      [] fmt = "RGB_161616"  -> "RGBA_16161616"
      [] fmt = "BGR_161616"  -> "BGRA_16161616"
      [] fmt = "RGB_hhh"     -> "RGBA_hhhh"
      [] fmt = "BGR_hhh"     -> "BGRA_hhhh"
      [] fmt = "RGB_fff"     -> "RGBA_ffff"
      [] fmt = "BGR_fff"     -> "BGRA_ffff"

\* The pixel p of a format without alpha as a pixel of its alpha-carrying
\* format, the alpha bits zero
WithAlphaPixel(fmt, p) ==
    CASE fmt \in {"RGB_888", "BGR_888"}         -> p \o <<0>>
      [] fmt = "RGB_101010x"                    -> <<p[1], p[2], p[3], p[4] % 64>>
      [] fmt \in {"RGB_161616", "BGR_161616"}   -> p \o <<0, 0>>
      [] fmt \in {"RGB_hhh", "BGR_hhh"}         -> p \o <<0, 0>>
      [] fmt \in {"RGB_fff", "BGR_fff"}         -> p \o <<0, 0, 0, 0>>

\* The integer nearest to 255 * n / max, ties to even
NearestByte(n, max) ==
    LET q == (255 * n) \div max
        r == (255 * n) % max
    IN  IF 2 * r > max \/ (2 * r = max /\ q % 2 = 1) THEN q + 1 ELSE q

\* The three colour bytes documented for a 565 pixel p
ColorBytes565(srcFmt, dstFmt, p) ==
    LET w  == p[1] + 256 * p[2]
        lo == NearestByte(w % 32, 31)
        mi == NearestByte((w \div 32) % 64, 63)
        hi == NearestByte(w \div 2048, 31)
    IN  IF (srcFmt = "RGB_565") = (dstFmt = "RGBA_8888") THEN <<lo, mi, hi>>
        ELSE <<hi, mi, lo>>

\* The three colour bytes documented for the pixel p of a format without alpha
ColorBytes(srcFmt, dstFmt, p) ==
    IF srcFmt \in {"RGB_565", "BGR_565"} THEN ColorBytes565(srcFmt, dstFmt, p)
    ELSE SubSeq(ConvertPixel(WithAlphaFormat(srcFmt), dstFmt, WithAlphaPixel(srcFmt, p)),
                1, 3)

\* The three colour bytes documented for a 101010x pixel p: the nearest bytes
\* to its three 10-bit fields, whatever its last two bits are
ColorBytes101010x(dstFmt, p) ==
    LET lo == NearestByte(p[1] + 256 * (p[2] % 4), 1023)
        mi == NearestByte(p[2] \div 4 + 64 * (p[3] % 16), 1023)
        hi == NearestByte(p[3] \div 16 + 16 * (p[4] % 64), 1023)
    IN  IF dstFmt = "RGBA_8888" THEN <<lo, mi, hi>> ELSE <<hi, mi, lo>>

\* C20: from a format without alpha to RGBA_8888 or BGRA_8888 every
\* destination pixel has the alpha byte 0xff whatever the source bits are, and
\* colour bytes as converted from the corresponding alpha-carrying format.
C20_MissingAlphaIsOpaque ==
    (/\ pc = "once" /\ ret /\ NoColorConversion
     /\ px.srcFmt \in NoAlphaFormats
     /\ px.dstFmt \in {"RGBA_8888", "BGRA_8888"}) =>
        \A i \in 0..(px.n - 1) :
            /\ PixelOf(DstBytes, px.dstFmt, i)[4] = 255
            /\ SubSeq(PixelOf(DstBytes, px.dstFmt, i), 1, 3)
                 = ColorBytes(px.srcFmt, px.dstFmt, PixelOf(SrcBytes, px.srcFmt, i))
            /\ px.srcFmt = "RGB_101010x" =>
                   SubSeq(PixelOf(DstBytes, px.dstFmt, i), 1, 3)
                     = ColorBytes101010x(px.dstFmt, PixelOf(SrcBytes, px.srcFmt, i))

\* The word 1023 | 511 << 10 | 4 << 20 | 1 << 30 as RGB_101010x converted to
\* RGBA_8888: 0xff017fff, the two last bits of the source ignored
C20_Witness ==
    /\ pc = "once" /\ ret /\ NoColorConversion
    /\ px.srcFmt = "RGB_101010x" /\ px.dstFmt = "RGBA_8888"
    /\ \E i \in 0..(px.n - 1) :
          /\ PixelOf(SrcBytes, px.srcFmt, i) = <<255, 255, 71, 64>>
          /\ PixelOf(DstBytes, px.dstFmt, i) = <<255, 127, 1, 255>>

(***************************************************************************)
(* C21                                                                     *)
(***************************************************************************)

\* The channel values of the source pixel p, each with the largest value of
\* its width, in the order red, green, blue, alpha; 565 has no alpha
SourceChannels(fmt, p) ==
    CASE fmt = "RGB_565" ->
           LET w == p[1] + 256 * p[2]
           IN  <<<<w % 32, 31>>, <<(w \div 32) % 64, 63>>, <<w \div 2048, 31>>>>
      [] fmt = "RGBA_1010102" ->
           <<<<p[1] + 256 * (p[2] % 4), 1023>>,
             <<p[2] \div 4 + 64 * (p[3] % 16), 1023>>,
             <<p[3] \div 16 + 16 * (p[4] % 64), 1023>>,
             <<p[4] \div 64, 3>>>>
      [] fmt = "RGBA_16161616" ->
           <<<<256 * p[1] + p[2], 65535>>, <<256 * p[3] + p[4], 65535>>,
             <<256 * p[5] + p[6], 65535>>, <<256 * p[7] + p[8], 65535>>>>

\* The literal conversions: source pixel and the four bytes of the result
LiteralCases ==
    {<<"RGB_565", <<138, 82>>, <<82, 81, 82, 255>>>>,
     <<"RGB_565", <<223, 255>>, <<255, 251, 255, 255>>>>,
     <<"RGB_565", <<0, 0>>, <<0, 0, 0, 255>>>>,
     <<"RGB_565", <<255, 255>>, <<255, 255, 255, 255>>>>,
     <<"RGBA_1010102", <<255, 255, 71, 64>>, <<255, 127, 1, 85>>>>,
     <<"RGBA_16161616", <<252, 126, 253, 126, 254, 126, 255, 126>>, <<252, 253, 254, 254>>>>}

\* C21: an n-bit channel value v converted to 8 bits is round(255 * v /
\* (2^n - 1)) for every v, for the widths 5, 6, 10, 2 and 16 (big-endian); 0
\* gives 0x00 and the largest value 0xff; 565 entries 20 and 62 give
\* 0xff525152 and 0xfffffbff, 1023|511<<10|4<<20|1<<30 gives 0x55017fff and
\* 0x7eff7efe7efd7efc gives 0xfefefdfc.
C21_ChannelScaling ==
    pc = "bytes" =>
        /\ ret
        /\ LET c == SourceChannels(px.srcFmt, SrcBytes)
           IN  \A k \in 1..Len(c) :
                 /\ DstBytes[k] = NearestByte(c[k][1], c[k][2])
                 /\ c[k][1] = 0 => DstBytes[k] = 0
                 /\ c[k][1] = c[k][2] => DstBytes[k] = 255
        /\ \A l \in LiteralCases :
             (px.srcFmt = l[1] /\ SrcBytes = l[2]) => DstBytes = l[3]

\* The pixel 0x7eff7efe7efd7efc converted to 0xfefefdfc
C21_Witness ==
    /\ pc = "bytes" /\ ret
    /\ px.srcFmt = "RGBA_16161616"
    /\ SrcBytes = <<252, 126, 253, 126, 254, 126, 255, 126>>
    /\ DstBytes = <<252, 253, 254, 254>>

(***************************************************************************)
(* C22                                                                     *)
(***************************************************************************)

\* The offsets of the caller's buffer: [buffer, buffer + len)
Buffer == 0 .. (Len(mem) - 1)

\* A tag of a profile whose declared size is SizeOK: its size is at least 4
\* and offset + size is at most the declared size
TagInside(t) ==
    /\ ~MathLt(t.size, MathNum(4))
    /\ ~MathLt(DeclaredSize(mem), MathAdd(MathNum(t.buf), t.size))

\* The first `size` bytes of a tag
TagBytes(t) == Span(t.buf, t.size[1] * Limb + t.size[2])

\* The signatures skcms_Parse decodes as curves and as XYZ columns
XYZSigs == {Sig_rXYZ, Sig_gXYZ, Sig_bXYZ}

\* What a decoder reads of the tag a lookup by signature returned
DecoderReads(sig, t) ==
    IF sig \in XYZSigs THEN reads_read_tag_xyz(mem, t)
    ELSE reads_read_curve(mem, t.buf, t.size)

\* The lookup of sig and the decoding of the tag found stay inside the buffer,
\* and the decoding inside the tag
DecodedInside(sig) ==
    /\ reads_GetTagBySignature(mem, profile, sig) \subseteq Buffer
    /\ Let(skcms_GetTagBySignature(mem, profile, sig, NoTag),
           LAMBDA t : t.ret => /\ TagInside(t.tag)
                               /\ TagBytes(t.tag) \subseteq Buffer
                               /\ DecoderReads(sig, t.tag) \subseteq TagBytes(t.tag))

\* The profile the lookup ran on is one skcms_Parse accepted
LookupOnParsed == IF IsNull(profile) THEN FALSE ELSE profile.buffer # NULL

\* C22: after skcms_Parse succeeds on a buffer of length len, the tag table
\* ends at or before the declared size, which is at most len; every entry has
\* size >= 4 and offset + size <= declared size; every byte read by
\* skcms_GetTagBySignature, by skcms_GetTagByIndex with idx < tag_count and by
\* the TRC and XYZ decoders lies in [buffer, buffer + len), and each decoder
\* reads only within the first `size` bytes of its tag.
C22_ReadsStayInside ==
    /\ (pc = "parsed" /\ ret) =>
           /\ SizeOK(mem)
           /\ EntriesOK(mem)
           /\ \A sig \in TRCSigs \cup XYZSigs : DecodedInside(sig)
    /\ (pc = "bysig" /\ LookupOnParsed) =>
           /\ reads_GetTagBySignature(mem, profile, arg) \subseteq Buffer
           /\ (ret /\ ~IsNull(tag)) => (TagInside(tag) /\ Span(tag.buf, 4) \subseteq Buffer)
    /\ (pc = "byindex" /\ ret /\ ~IsNull(tag) /\ IndexInTable) =>
           /\ reads_GetTagByIndex(mem, profile, arg) \subseteq Buffer
           /\ TagInside(tag)
           /\ Span(tag.buf, 4) \subseteq Buffer
    /\ pc = "curve" =>
           /\ TagInside(tag)
           /\ reads_read_curve(mem, tag.buf, tag.size) \subseteq TagBytes(tag)
           /\ TagBytes(tag) \subseteq Buffer

\* A parametric curve decoded from a tag that ends where the buffer ends: the
\* decoder read the last byte of the buffer
C22_Witness ==
    /\ pc = "curve" /\ ret
    /\ tag.type = Sig_para
    /\ tag.buf + tag.size[2] = Len(mem)
    /\ (Len(mem) - 1) \in reads_read_curve(mem, tag.buf, tag.size)

(***************************************************************************)
(* C23                                                                     *)
(***************************************************************************)

\* The start of the table area: the first byte after the fixed part of the tag
A2BTableBase == A2BAt + A2BFixedLen

\* The bytes of one input table, of the grid and of one output table
A2BInputTableBytes == A2BInputTableSize * A2BWidth

A2BOutputTableBytes == A2BOutputTableSize * A2BWidth

A2BGridBytes ==
    Let(MathTimesPower(MathNum(3 * A2BWidth), A2BGridPoints, A2BInputChannels),
        LAMBDA g : g[1] * Limb + g[2])

\* The regions the recorded pointers name, each <<start, length>>: the input
\* tables, the grid, the output tables
MftRegions ==
    [i \in 0..(mft.input_channels - 1) |-> <<mft.input_tables[i], A2BInputTableBytes>>]
      @@ [k \in {mft.input_channels} |-> <<mft.grid, A2BGridBytes>>]
      @@ [k \in (mft.input_channels + 1)..(mft.input_channels + 3) |->
            <<mft.output_tables[k - mft.input_channels - 1], A2BOutputTableBytes>>]

\* C23: when skcms_GetMultiFunctionTable succeeds, input table i starts at
\* i * input_table_size * width from the start of the tag's table area, the
\* grid starts right after the last input table, output table j starts after
\* the grid at j * output_table_size * width; no two regions overlap and the
\* last output table ends at or before the end of the tag.
C23_MftTablesConsecutive ==
    (pc = "mft" /\ ret) =>
        /\ \A i \in 0..(A2BInputChannels - 1) :
             mft.input_tables[i] = A2BTableBase + i * A2BInputTableBytes
        /\ mft.grid = A2BTableBase + A2BInputChannels * A2BInputTableBytes
        /\ \A j \in 0..2 :
             mft.output_tables[j] = mft.grid + A2BGridBytes + j * A2BOutputTableBytes
        /\ \A a, b \in DOMAIN MftRegions :
             a < b => MftRegions[a][1] + MftRegions[a][2] <= MftRegions[b][1]
        /\ \A a \in DOMAIN MftRegions : MftRegions[a][2] > 0
        /\ mft.output_tables[2] + A2BOutputTableBytes <= A2BAt + A2BSize
        /\ A2BAt + A2BSize <= Len(mem)

\* Two input tables and output tables of another size, the last output table
\* ending where the tag ends
C23_Witness ==
    /\ pc = "mft" /\ ret
    /\ mft.input_channels = 2
    /\ mft.input_table_size # mft.output_table_size
    /\ mft.output_tables[2] + A2BOutputTableBytes = A2BAt + A2BSize

(***************************************************************************)
(* C24                                                                     *)
(***************************************************************************)

\* The sample count of the 'curv' tag of signature sig
SamplesOf(buf, sig) == WordAt(buf, DataAt(buf, sig) + 8)

\* A tag of signature sig is present and is a 'curv' tag of two or more
\* samples, long enough to hold them
TabulatedTag(buf, sig) ==
    /\ Matching(buf, sig) # {}
    /\ WordAt(buf, DataAt(buf, sig)) = Sig_curv
    /\ ~MathLt(EntrySize(buf, Lowest(Matching(buf, sig))), MathNum(12))
    /\ ~MathLt(SamplesOf(buf, sig), MathNum(2))
    /\ ~MathLt(EntrySize(buf, Lowest(Matching(buf, sig))),
               MathAdd(MathMul(SamplesOf(buf, sig), 2), MathNum(12)))

ThreeTabulatedTRCs == \A sig \in TRCSigs : TabulatedTag(mem, sig)

\* The samples of the three tables together
TotalSamples ==
    SamplesOf(mem, Sig_rTRC)[2] + SamplesOf(mem, Sig_gTRC)[2] + SamplesOf(mem, Sig_bTRC)[2]

\* The call is over, by a return or by a fault
ApproximateOver == pc \in {"approx", "approx_fault"}

\* C24 as documented: skcms_ApproximateTransferFunction returns false without
\* allocating unless rTRC, gTRC and bTRC are all present and tabulated, so it
\* never succeeds when has_tf is true; when it allocates, the working buffer
\* holds 2 floats per sample of the three tables, is written only if the
\* allocation succeeded and is released exactly once before the return,
\* whether the fit succeeds or fails.
C24_WorkingBufferSafe ==
    ApproximateOver =>
        /\ ~ThreeTabulatedTRCs => (~ret /\ heap.malloc_calls = 0)
        /\ ret => ~profile.has_tf
        /\ heap.malloc_calls > 0 => heap.size = 2 * 4 * TotalSamples
        /\ heap.null_writes = 0
        /\ pc # "approx_fault"
        /\ ~heap.live
        /\ heap.frees = heap.blocks
        /\ heap.blocks <= 1

\* What the code does: the same, except that a failed allocation is not
\* tested, so the merge writes through the null pointer.
C24_CodeBehaviour ==
    ApproximateOver =>
        /\ ~ThreeTabulatedTRCs => (~ret /\ heap.malloc_calls = 0 /\ pc = "approx")
        /\ (pc = "approx" /\ ret) => ~profile.has_tf
        /\ heap.malloc_calls > 0 => heap.size = 2 * 4 * TotalSamples
        /\ heap.blocks = 1 => /\ heap.null_writes = 0
                              /\ Len(heap.data) = 2 * TotalSamples
                              /\ heap.frees = 1
                              /\ ~heap.live
                              /\ pc = "approx"
        /\ (heap.malloc_calls = 1 /\ heap.blocks = 0) => heap.null_writes > 0

\* Three tabulated curves and an allocation that failed: the first write of
\* the merge goes through the null pointer
C24_Witness ==
    /\ pc = "approx_fault"
    /\ ThreeTabulatedTRCs
    /\ heap.malloc_calls = 1 /\ heap.blocks = 0
    /\ heap.null_writes = 1

====
